---- MODULE Spec2Model ----
(***************************************************************************)
(* SMAF-Development-Kit: the connectivity sequencer of the sketch          *)
(* (setup, loop, connectToNetwork, connectToMqttBroker) and the SoftAP     *)
(* configuration server of WiFiConfig (renderConfigPage, loadPreferences,  *)
(* savePreferences, parseFieldValue and its helpers).                      *)
(*                                                                         *)
(* Text is a sequence of byte values (an Arduino String); positions in the *)
(* operators below are 0-based as in the C++ source.                       *)
(***************************************************************************)
EXTENDS Integers, Sequences, FiniteSets, TLC

\* ------------------------------------------------------------------ bounds

\* How many times the environment may drop the Wi-Fi association or the
\* broker session in one boot.
MaxLoss == 2

\* How many WiFiConfig methods a direct caller invokes in a row.
MaxCalls == 4

\* How many times the device is restarted.
MaxBoots == 1

\* How many key=value pairs a generated body holds at most.
MaxPairs == 2

\* Up to how many ended cycles of the thread are counted after a change of
\* deviceStatus.
MaxCycles == 2

\* ------------------------------------------------------- character values

CH_NUL == 0
CH_TAB == 9
CH_CR == 13
CH_SPACE == 32
CH_PERCENT == 37
CH_AMP == 38
CH_PLUS == 43
CH_MINUS == 45
CH_0 == 48
CH_9 == 57
CH_UPPER_A == 65
CH_UPPER_F == 70
CH_LOWER_A == 97
CH_LOWER_F == 102
UINT16_MAX == 65535

\* The field identifiers of WiFiConfig.h, as text.
NETWORK_NAME == <<110, 101, 116, 78, 97, 109, 101>>                      \* "netName"
NETWORK_PASS == <<110, 101, 116, 80, 97, 115, 115>>                      \* "netPass"
MQTT_SERVER_ADDRESS == <<109, 113, 116, 116, 83, 114, 118, 65, 100, 114>> \* "mqttSrvAdr"
MQTT_SERVER_PORT == <<109, 113, 116, 116, 83, 114, 118, 80, 111, 114, 116>> \* "mqttSrvPort"
MQTT_USERNAME == <<109, 113, 116, 116, 85, 115, 101, 114>>               \* "mqttUser"
MQTT_PASS == <<109, 113, 116, 116, 80, 97, 115, 115>>                    \* "mqttPass"
MQTT_CLIENT_ID == <<109, 113, 116, 116, 67, 108, 105, 101, 110, 116>>    \* "mqttClient"
MQTT_TOPIC == <<109, 113, 116, 116, 84, 111, 112, 105, 99>>              \* "mqttTopic"

\* "/configuration", the submission path looked for in the request line.
SubmissionPath == <<47, 99, 111, 110, 102, 105, 103, 117, 114, 97, 116, 105, 111, 110>>
\* " HTTP", the suffix that ends the last field of a request line.
HttpSuffix == <<32, 72, 84, 84, 80>>

\* The seven text fields and the port field, by the name of their key.
TextKeys == {"netName", "netPass", "mqttSrvAdr", "mqttUser", "mqttPass", "mqttClient", "mqttTopic"}
PortKey == "mqttSrvPort"
Keys == TextKeys \cup {PortKey}

KeyText(k) ==
  CASE k = "netName" -> NETWORK_NAME
    [] k = "netPass" -> NETWORK_PASS
    [] k = "mqttSrvAdr" -> MQTT_SERVER_ADDRESS
    [] k = "mqttSrvPort" -> MQTT_SERVER_PORT
    [] k = "mqttUser" -> MQTT_USERNAME
    [] k = "mqttPass" -> MQTT_PASS
    [] k = "mqttClient" -> MQTT_CLIENT_ID
    [] k = "mqttTopic" -> MQTT_TOPIC

\* ------------------------------------------------- Arduino String helpers

Min(a, b) == IF a <= b THEN a ELSE b

\* An int converted to unsigned int (32 bits). A negative n becomes 2^32 + n,
\* which lies above every length; it is written 2^31 + n here, which keeps the
\* order of such values and still lies above every length.
ToUnsigned(n) == IF n < 0 THEN (n + 2147483647) + 1 ELSE n

\* String::operator[]: the byte at 0-based position i, 0 past the end.
CharAt(s, i) == IF i >= 0 /\ i < Len(s) THEN s[i + 1] ELSE CH_NUL

\* Whether t occurs in s at 0-based position i.
OccursAt(s, t, i) ==
  /\ i + Len(t) <= Len(s)
  /\ \A j \in 1..Len(t) : s[i + j] = t[j]

\* String::indexOf(t, fromIndex): the first position >= fromIndex at which t
\* occurs, -1 when there is none or fromIndex (unsigned) is past the end.
IndexOfFrom(s, t, fromIndex) ==
  LET from == ToUnsigned(fromIndex)
      hits == {i \in 0..Len(s) : i >= from /\ OccursAt(s, t, i)}
  IN  IF from >= Len(s) \/ hits = {} THEN -1
      ELSE CHOOSE i \in hits : \A j \in hits : i <= j

\* String::indexOf(t).
IndexOf(s, t) == IndexOfFrom(s, t, 0)

\* String::substring(left, right): both unsigned, swapped when left > right,
\* empty when left is past the end, right cut to the length.
Substring(s, left, right) ==
  LET l0 == ToUnsigned(left)
      r0 == ToUnsigned(right)
      l == IF l0 > r0 THEN r0 ELSE l0
      r1 == IF l0 > r0 THEN l0 ELSE r0
      r == Min(r1, Len(s))
  IN  IF l >= Len(s) THEN <<>> ELSE SubSeq(s, l + 1, r)

\* ------------------------------------------------------ WiFiConfig helpers

\* hexToByte knowing the decimal digits only.
hexToByte_DigitsOnly(c) ==
  IF CH_0 <= c /\ c <= CH_9 THEN c - CH_0 ELSE 0

\* WiFiConfig::hexToByte.
hexToByte(c) ==
  IF CH_0 <= c /\ c <= CH_9 THEN c - CH_0
  ELSE IF CH_LOWER_A <= c /\ c <= CH_LOWER_F THEN c - CH_LOWER_A + 10
  ELSE IF CH_UPPER_A <= c /\ c <= CH_UPPER_F THEN c - CH_UPPER_A + 10
  ELSE 0

\* The loop of WiFiConfig::decodeResponse from position i on.
RECURSIVE DecodeFrom(_, _)
DecodeFrom(input, i) ==
  IF i >= Len(input) THEN <<>>
  ELSE IF CharAt(input, i) = CH_PERCENT
       THEN <<(hexToByte(CharAt(input, i + 1)) * 16 + hexToByte(CharAt(input, i + 2))) % 256>>
            \o DecodeFrom(input, i + 3)
  ELSE IF CharAt(input, i) = CH_PLUS
       THEN <<CH_SPACE>> \o DecodeFrom(input, i + 1)
  ELSE <<CharAt(input, i)>> \o DecodeFrom(input, i + 1)

\* WiFiConfig::decodeResponse.
decodeResponse(input) == DecodeFrom(input, 0)

\* WiFiConfig::removeSpaces.
removeSpaces(str) ==
  IF Len(str) > 0
  THEN IF \E i \in 1..Len(str) : str[i] # CH_SPACE THEN str ELSE <<>>
  ELSE str

\* parseFieldValue decoding the whole text before it cuts the value out.
parseFieldValue_DecodesFirst(data, fieldId) ==
  LET decoded == decodeResponse(data)
      index == IndexOf(decoded, fieldId) + Len(fieldId) + 1
      ampIndex == IndexOfFrom(decoded, <<CH_AMP>>, index)
      httpIndex == IndexOfFrom(decoded, HttpSuffix, index)
      endIndex == Min(IF ampIndex # -1 THEN ampIndex ELSE httpIndex, Len(decoded))
      value == Substring(decoded, index, endIndex)
  IN  IF value = <<>> THEN <<>> ELSE removeSpaces(value)

\* WiFiConfig::parseFieldValue.
parseFieldValue(data, fieldId) ==
  LET index == IndexOf(data, fieldId) + Len(fieldId) + 1
      ampIndex == IndexOfFrom(data, <<CH_AMP>>, index)
      httpIndex == IndexOfFrom(data, HttpSuffix, index)
      endIndex == Min(IF ampIndex # -1 THEN ampIndex ELSE httpIndex, Len(data))
      value == Substring(data, index, endIndex)
  IN  IF value = <<>> THEN <<>> ELSE removeSpaces(decodeResponse(value))

\* isspace of the C library.
IsSpace(c) == c = CH_SPACE \/ (CH_TAB <= c /\ c <= CH_CR)

IsDigit(c) == CH_0 <= c /\ c <= CH_9

\* The largest long of the target (32 bits).
LongMax == 2147483647

\* The digits of s from position i on, accumulated onto acc and saturated at
\* LongMax, as strtol does.
RECURSIVE DigitsFrom(_, _, _)
DigitsFrom(s, i, acc) ==
  IF IsDigit(CharAt(s, i))
  THEN LET d == CharAt(s, i) - CH_0
       IN  DigitsFrom(s, i + 1,
                      IF acc > (LongMax - d) \div 10 THEN LongMax ELSE acc * 10 + d)
  ELSE acc

RECURSIVE SkipSpaces(_, _)
SkipSpaces(s, i) == IF IsSpace(CharAt(s, i)) THEN SkipSpaces(s, i + 1) ELSE i

\* String::toInt (atol): leading white space, an optional sign, then digits up
\* to the first other byte; 0 when there is no digit. (A negative overflow
\* saturates at -LongMax here and at -LongMax - 1 in C; both are negative.)
toInt(s) ==
  LET i == SkipSpaces(s, 0)
      neg == CharAt(s, i) = CH_MINUS
      j == IF CharAt(s, i) \in {CH_MINUS, CH_PLUS} THEN i + 1 ELSE i
      mag == DigitsFrom(s, j, 0)
  IN  IF neg THEN -mag ELSE mag

\* WiFiConfig::stringToUint16.
stringToUint16(str) ==
  LET intValue == toInt(str)
  IN  IF intValue >= 0 /\ intValue <= UINT16_MAX THEN intValue ELSE 0

\* String(uint16_t): the decimal digits of n.
RECURSIVE UInt16ToString(_)
UInt16ToString(n) ==
  IF n < 10 THEN <<CH_0 + n>> ELSE UInt16ToString(n \div 10) \o <<CH_0 + (n % 10)>>

\* ---------------------------------------------------- persistent store

\* The namespaces of the non-volatile store; the sketch uses "SMAF-DK".
Namespaces == {"SMAF-DK", "other"}

\* GetPreference that never finds the key.
GetPreference_IgnoresStore(store, namespace, key, default) == default

\* Preferences::getString / getUShort: the value stored under key in the
\* namespace, the default when the namespace cannot be opened or holds no
\* such key.
GetPreference(store, namespace, key, default) ==
  IF namespace \in DOMAIN store /\ key \in DOMAIN store[namespace]
  THEN store[namespace][key]
  ELSE default

\* LoadedRecord reading the network password from the key of the network
\* name.
LoadedRecord_WrongKey(store, namespace) ==
  [k \in Keys |->
     GetPreference(store, namespace, IF k = "netPass" THEN "netName" ELSE k,
                   IF k = PortKey THEN 0 ELSE <<>>)]

\* The eight values WiFiConfig::loadPreferences reads, each with its empty or
\* zero default.
LoadedRecord(store, namespace) ==
  [k \in Keys |-> GetPreference(store, namespace, k, IF k = PortKey THEN 0 ELSE <<>>)]

\* ComputeValid without the test of the port.
ComputeValid_IgnoresPort(record) ==
  ~ (\E k \in TextKeys : record[k] = <<>>)

\* ComputeValid testing the port alone.
ComputeValid_PortOnly(record) == record[PortKey] # 0

\* The validity test at the end of WiFiConfig::loadPreferences.
ComputeValid(record) ==
  ~ (\/ \E k \in TextKeys : record[k] = <<>>
     \/ record[PortKey] = 0)

\* SavedStore with the put of the port left out.
SavedStore_SkipsPort(store, namespace, record) ==
  IF namespace \in DOMAIN store
  THEN [store EXCEPT ![namespace] =
          [k \in (DOMAIN store[namespace]) \cup TextKeys |->
             IF k \in TextKeys THEN record[k] ELSE store[namespace][k]]]
  ELSE store

\* SavedStore appending each text to what the key already holds.
SavedStore_Appends(store, namespace, record) ==
  IF namespace \in DOMAIN store
  THEN [store EXCEPT ![namespace] =
          [k \in (DOMAIN store[namespace]) \cup Keys |->
             IF k \in TextKeys /\ k \in DOMAIN store[namespace]
             THEN store[namespace][k] \o record[k]
             ELSE IF k \in Keys THEN record[k] ELSE store[namespace][k]]]
  ELSE store

\* The store after WiFiConfig::savePreferences: the eight fields of the record
\* put under their keys in the namespace, every other key kept.
SavedStore(store, namespace, record) ==
  IF namespace \in DOMAIN store
  THEN [store EXCEPT ![namespace] =
          [k \in (DOMAIN store[namespace]) \cup Keys |->
             IF k \in Keys THEN record[k] ELSE store[namespace][k]]]
  ELSE store

\* ClearedStore removing only the eight keys of the record.
ClearedStore_SchemaOnly(store, name) ==
  IF name \in DOMAIN store
  THEN [store EXCEPT ![name] = [k \in (DOMAIN store[name]) \ Keys |-> store[name][k]]]
  ELSE store

\* The store after WiFiConfig::clearPreferencesInNamespace: Preferences::clear
\* removes every key of the namespace, the other namespaces are not opened.
ClearedStore(store, name) ==
  IF name \in DOMAIN store
  THEN [store EXCEPT ![name] = [k \in {} |-> <<>>]]
  ELSE store

\* ------------------------------------------------------------- the inputs

T_home == <<104, 111, 109, 101>>       \* "home"
T_pw == <<112, 119>>                   \* "pw"
T_host == <<98, 46, 105, 111>>         \* "b.io"
T_1883 == <<49, 56, 56, 51>>           \* "1883"
T_65535 == <<54, 53, 53, 51, 53>>      \* "65535"
T_99999 == <<57, 57, 57, 57, 57>>      \* "99999"
T_abc == <<97, 98, 99>>                \* "abc"
T_u == <<117>>                         \* "u"
T_c1 == <<99, 49>>                     \* "c1"
T_t == <<116>>                         \* "t"
T_enc == <<97, 37, 50, 48, 98, 43, 99>> \* "a%20b+c"
T_GetRoot == <<71, 69, 84, 32, 47, 32, 72, 84, 84, 80, 47, 49, 46, 49>>  \* "GET / HTTP/1.1"
T_GetConfiguration == <<71, 69, 84, 32, 47, 99, 111, 110, 102, 105, 103, 117, 114, 97, 116, 105, 111, 110>> \* "GET /configuration"
T_Http11 == <<32, 72, 84, 84, 80, 47, 49, 46, 49>>  \* " HTTP/1.1"
T_xyz == <<120, 121, 122>>             \* "xyz"

\* The order in which the form of renderConfigPage submits its fields.
FormOrder == <<"netName", "netPass", "mqttSrvAdr", "mqttSrvPort", "mqttUser", "mqttPass", "mqttClient", "mqttTopic">>

\* "k1=v1&k2=v2&..." for the keys of order that values has.
RECURSIVE QueryOf(_, _)
QueryOf(order, values) ==
  IF order = <<>> THEN <<>>
  ELSE LET k == Head(order)
           rest == QueryOf(Tail(order), values)
       IN  IF k \notin DOMAIN values THEN rest
           ELSE KeyText(k) \o <<61>> \o values[k]
                \o (IF rest = <<>> THEN <<>> ELSE <<CH_AMP>> \o rest)

\* The request line of a form submission: "GET /configuration?<query> HTTP/1.1".
SubmissionLine(values) ==
  T_GetConfiguration \o <<63>> \o QueryOf(FormOrder, values) \o T_Http11

FullValues ==
  [k \in Keys |->
     CASE k = "netName" -> T_home
       [] k = "netPass" -> T_pw
       [] k = "mqttSrvAdr" -> T_host
       [] k = "mqttSrvPort" -> T_1883
       [] k = "mqttUser" -> T_u
       [] k = "mqttPass" -> T_pw
       [] k = "mqttClient" -> T_c1
       [] k = "mqttTopic" -> T_t]

\* The request lines a client may send.
Requests ==
  { T_GetRoot,
    <<>>,
    T_xyz,
    T_GetConfiguration \o T_Http11,
    SubmissionLine(FullValues),
    SubmissionLine([FullValues EXCEPT !["netName"] = T_enc, !["mqttSrvPort"] = T_65535]),
    SubmissionLine([FullValues EXCEPT !["mqttSrvPort"] = T_99999]),
    SubmissionLine([FullValues EXCEPT !["mqttSrvPort"] = T_abc]),
    SubmissionLine([FullValues EXCEPT !["netPass"] = <<>>]),
    SubmissionLine([k \in Keys \ {"mqttUser"} |-> FullValues[k]]) }

\* A populated record, as an earlier configuration left it in the store.
StoredValid ==
  [k \in Keys |-> IF k = PortKey THEN 1883 ELSE FullValues[k]]

\* What the "SMAF-DK" namespace may hold at power-on: nothing (a fresh
\* device), a populated record, a record with an empty field, a record with
\* port 0, a record with a key missing.
InitialContents ==
  { [k \in {} |-> <<>>],
    StoredValid,
    [StoredValid EXCEPT !["mqttTopic"] = <<>>],
    [StoredValid EXCEPT ![PortKey] = 0],
    [k \in Keys \ {"netPass"} |-> StoredValid[k]] }

\* ------------------------------------------------------------------ state

SetupPcs == {"setup_load", "setup_decide"}
NetPcs == {"net_check", "net_loop", "net_begin"}
MqttPcs == {"mqtt_check", "mqtt_loop", "mqtt_connect"}
RenderPcs == {"render", "render_wait"}
AllPcs == SetupPcs \cup NetPcs \cup MqttPcs \cup RenderPcs \cup {"loop_top", "publish_check", "delay"}

Statuses == {"NONE", "NOT_READY", "READY_TO_SEND", "WAITING_GNSS", "MAINTENANCE_MODE"}

VARIABLES
  pc,                   \* where the main flow (setup, then loop) stands
  deviceStatus,         \* the shared DeviceStatusEnum variable
  configurationButton,  \* the level of the configuration button pin
  preferencesNamespace, \* WiFiConfig::_preferencesNamespace
  prefs,                \* the working record: _networkName .. _mqttTopic, _mqttServerPort
  isConfigValid,        \* WiFiConfig::_isConfigValid
  nvs,                  \* the non-volatile store: namespace -> key -> value
  serverStarted,        \* how many times startConfig ran
  wifi,                 \* WiFi.status() == WL_CONNECTED
  mqttConn,             \* mqtt.connected()
  losses,               \* connection losses so far
  netReturned,          \* connectToNetwork returned in this loop iteration
  mqttReturned,         \* connectToMqttBroker returned in this loop iteration
  published,            \* mqtt.publish calls in this loop iteration
  lastCall,             \* what the latest step of the main flow did
  client,               \* the connection of a configuration client
  clientData,           \* the request line that client has sent
  request,              \* the request line renderConfigPage read last
  page,                 \* the response renderConfigPage sent last
  configServerPort,     \* WiFiConfig::_configServerPort, as given to the constructor
  listenPort,           \* the port the configuration server listens on, 0 when it does not
  reads,                \* request lines read from the latest connection
  responses,            \* responses sent on the latest connection
  calls,                \* the WiFiConfig methods a direct caller has invoked, in order
  boots,                \* restarts of the device so far
  fn,                   \* the helper function applied last, "none" before any
  arg,                  \* the input of the helper functions: a text and a field identifier
  out,                  \* the result of the helper function applied last
  visPc,                \* where DeviceStatusThread stands
  visStatus,            \* the status DeviceStatusThread sampled in this cycle
  visCount,             \* the loop counter of the READY_TO_SEND burst
  lit,                  \* the indicator channels that are lit
  shown,                \* the lit channels during each delay of this cycle, in order
  cyclesEnded           \* the cycles the thread has ended since deviceStatus last changed

vars == <<pc, deviceStatus, configurationButton, preferencesNamespace, prefs,
          isConfigValid, nvs, serverStarted, wifi, mqttConn, losses, netReturned,
          mqttReturned, published, lastCall, client, clientData, request, page,
          configServerPort, listenPort, reads, responses, calls,
          boots, fn, arg, out, visPc, visStatus, visCount, lit, shown, cyclesEnded>>

connVars == <<wifi, mqttConn, losses>>
configVars == <<preferencesNamespace, prefs, isConfigValid, nvs, serverStarted,
                configServerPort, listenPort, calls>>
serverVars == <<client, clientData, request, page, reads, responses>>
iterVars == <<netReturned, mqttReturned, published>>
pureVars == <<fn, arg, out>>
visVars == <<visPc, visStatus, visCount, lit, shown, cyclesEnded>>
auxVars == <<boots, pureVars, visVars>>

\* What a step outside DeviceStatusThread does to the variables of the other
\* specifications: nothing, but that a change of deviceStatus starts the count
\* of ended cycles afresh.
AuxFrame ==
  /\ cyclesEnded' = (IF deviceStatus' # deviceStatus THEN 0 ELSE cyclesEnded)
  /\ UNCHANGED <<boots, pureVars, visPc, visStatus, visCount, lit, shown>>

\* The values of the variables that the main flow does not use.
NoArg == [data |-> <<>>, fieldId |-> <<>>, pairs |-> <<>>]
AuxIdle ==
  /\ boots = 0
  /\ fn = "none"
  /\ arg = NoArg
  /\ out = <<>>
  /\ visPc = "off_red"
  /\ visStatus = "NONE"
  /\ visCount = 0
  /\ lit = {}
  /\ shown = <<>>
  /\ cyclesEnded = 0

\* The port the WiFiServer member is constructed with.
ServerInstancePort == 80

\* The ports a sketch may pass to the WiFiConfig constructor: the two the
\* revisions of the sketch pass.
ConfigServerPorts == {80, 8080}

EmptyRecord == [k \in Keys |-> IF k = PortKey THEN 0 ELSE <<>>]

NoPage == [status |-> 0, contentType |-> "", connection |-> "", success |-> FALSE,
           echo |-> [k \in {} |-> <<>>], form |-> [k \in {} |-> <<>>]]

\* The state at power-on: globals as the sketch initialises them, the store as
\* an earlier boot left it, the button at either level.
Init ==
  /\ pc = "setup_load"
  /\ deviceStatus = "NONE"
  /\ configurationButton \in {"LOW", "HIGH"}
  /\ preferencesNamespace = ""
  /\ prefs = EmptyRecord
  /\ isConfigValid = FALSE
  /\ \E contents \in InitialContents :
       nvs = [n \in Namespaces |-> IF n = "SMAF-DK" THEN contents ELSE [k \in {"x"} |-> T_xyz]]
  /\ serverStarted = 0
  /\ wifi = FALSE
  /\ mqttConn = FALSE
  /\ losses = 0
  /\ netReturned = FALSE
  /\ mqttReturned = FALSE
  /\ published = 0
  /\ lastCall = "none"
  /\ client = "none"
  /\ clientData = <<>>
  /\ request = <<>>
  /\ page = NoPage
  /\ configServerPort \in ConfigServerPorts
  /\ listenPort = 0
  /\ reads = 0
  /\ responses = 0
  /\ calls = <<>>
  /\ AuxIdle

\* ------------------------------------------------------------------ setup

\* SetupLoad writing the record it has loaded back to the store.
SetupLoad_Saves ==
  /\ pc = "setup_load"
  /\ preferencesNamespace' = "SMAF-DK"
  /\ prefs' = LoadedRecord(nvs, "SMAF-DK")
  /\ isConfigValid' = ComputeValid(LoadedRecord(nvs, "SMAF-DK"))
  /\ nvs' = SavedStore(nvs, "SMAF-DK", LoadedRecord(nvs, "SMAF-DK"))
  /\ pc' = "setup_decide"
  /\ lastCall' = "loadPreferences"
  /\ UNCHANGED <<deviceStatus, configurationButton, serverStarted>>
  /\ UNCHANGED <<configServerPort, listenPort, calls>>
  /\ UNCHANGED <<connVars, iterVars, serverVars>>
  /\ AuxFrame

\* WiFiConfig::setPreferencesNamespace and WiFiConfig::loadPreferences, as
\* setup calls them: the working record is read from the store and the
\* validity flag recomputed.
SetupLoad ==
  /\ pc = "setup_load"
  /\ preferencesNamespace' = "SMAF-DK"
  /\ prefs' = LoadedRecord(nvs, "SMAF-DK")
  /\ isConfigValid' = ComputeValid(LoadedRecord(nvs, "SMAF-DK"))
  /\ pc' = "setup_decide"
  /\ lastCall' = "loadPreferences"
  /\ UNCHANGED <<deviceStatus, configurationButton, nvs, serverStarted>>
  /\ UNCHANGED <<configServerPort, listenPort, calls>>
  /\ UNCHANGED <<connVars, iterVars, serverVars>>
  /\ AuxFrame

\* SetupDecide with the validity of the configuration left out of the test.
SetupDecide_ButtonOnly ==
  /\ pc = "setup_decide"
  /\ IF configurationButton = "HIGH"
     THEN /\ deviceStatus' = "MAINTENANCE_MODE"
          /\ serverStarted' = serverStarted + 1
          /\ listenPort' = ServerInstancePort
     ELSE /\ deviceStatus' = "NOT_READY"
          /\ serverStarted' = serverStarted
          /\ listenPort' = listenPort
  /\ lastCall' = "setup"
  /\ pc' = "loop_top"
  /\ UNCHANGED <<configurationButton, preferencesNamespace, prefs, isConfigValid, nvs>>
  /\ UNCHANGED <<configServerPort, calls>>
  /\ UNCHANGED <<connVars, iterVars, serverVars>>
  /\ AuxFrame

\* SetupDecide entering maintenance mode without calling startConfig.
SetupDecide_NoStart ==
  /\ pc = "setup_decide"
  /\ deviceStatus' = (IF configurationButton = "HIGH" \/ ~isConfigValid
                      THEN "MAINTENANCE_MODE" ELSE "NOT_READY")
  /\ lastCall' = "setup"
  /\ pc' = "loop_top"
  /\ UNCHANGED <<configurationButton, preferencesNamespace, prefs, isConfigValid, nvs>>
  /\ UNCHANGED <<serverStarted, listenPort, configServerPort, calls>>
  /\ UNCHANGED <<connVars, iterVars, serverVars>>
  /\ AuxFrame

\* The mode decision at the end of setup: the button is read once, and the
\* SoftAP configuration server is started in maintenance mode
\* (WiFiConfig::startConfig).
SetupDecide ==
  /\ pc = "setup_decide"
  /\ IF configurationButton = "HIGH" \/ ~isConfigValid
     THEN /\ deviceStatus' = "MAINTENANCE_MODE"
          /\ serverStarted' = serverStarted + 1
          /\ listenPort' = ServerInstancePort
     ELSE /\ deviceStatus' = "NOT_READY"
          /\ serverStarted' = serverStarted
          /\ listenPort' = listenPort
  /\ lastCall' = "setup"
  /\ pc' = "loop_top"
  /\ UNCHANGED <<configurationButton, preferencesNamespace, prefs, isConfigValid, nvs>>
  /\ UNCHANGED <<configServerPort, calls>>
  /\ UNCHANGED <<connVars, iterVars, serverVars>>
  /\ AuxFrame

\* ------------------------------------------------------------------- loop

\* LoopTop with the maintenance test made on the validity flag instead of the
\* device status.
LoopTop_TestsValidity ==
  /\ pc = "loop_top"
  /\ pc' = IF ~isConfigValid THEN "render" ELSE "net_check"
  /\ netReturned' = FALSE
  /\ mqttReturned' = FALSE
  /\ published' = 0
  /\ lastCall' = "none"
  /\ UNCHANGED <<deviceStatus, configurationButton>>
  /\ UNCHANGED <<connVars, configVars, serverVars>>
  /\ AuxFrame

\* The head of loop(): the maintenance test, which either calls
\* renderConfigPage or goes on to the connectivity sequencer.
LoopTop ==
  /\ pc = "loop_top"
  /\ pc' = IF deviceStatus = "MAINTENANCE_MODE" THEN "render" ELSE "net_check"
  /\ netReturned' = FALSE
  /\ mqttReturned' = FALSE
  /\ published' = 0
  /\ lastCall' = "none"
  /\ UNCHANGED <<deviceStatus, configurationButton>>
  /\ UNCHANGED <<connVars, configVars, serverVars>>
  /\ AuxFrame

\* NetCheck assigning WAITING_GNSS where the code assigns NOT_READY.
NetCheck_SetsWaiting ==
  /\ pc = "net_check"
  /\ IF wifi
     THEN /\ pc' = "mqtt_check"
          /\ netReturned' = TRUE
          /\ deviceStatus' = deviceStatus
     ELSE /\ pc' = "net_loop"
          /\ netReturned' = netReturned
          /\ deviceStatus' = "WAITING_GNSS"
  /\ lastCall' = "none"
  /\ UNCHANGED <<configurationButton, mqttReturned, published>>
  /\ UNCHANGED <<connVars, configVars, serverVars>>
  /\ AuxFrame

\* connectToNetwork, entry: returns at once when associated, otherwise sets
\* NOT_READY and enters the retry loop.
NetCheck ==
  /\ pc = "net_check"
  /\ IF wifi
     THEN /\ pc' = "mqtt_check"
          /\ netReturned' = TRUE
          /\ deviceStatus' = deviceStatus
     ELSE /\ pc' = "net_loop"
          /\ netReturned' = netReturned
          /\ deviceStatus' = "NOT_READY"
  /\ lastCall' = "none"
  /\ UNCHANGED <<configurationButton, mqttReturned, published>>
  /\ UNCHANGED <<connVars, configVars, serverVars>>
  /\ AuxFrame

\* NetLoop with the retry loop replaced by a single attempt: it returns
\* whether or not the network is associated.
NetLoop_SingleAttempt ==
  /\ pc = "net_loop"
  /\ IF wifi \/ lastCall \in {"wifi_begin_ok", "wifi_begin_fail"}
     THEN /\ pc' = "mqtt_check"
          /\ netReturned' = TRUE
     ELSE /\ pc' = "net_begin"
          /\ netReturned' = netReturned
  /\ lastCall' = "none"
  /\ UNCHANGED <<deviceStatus, configurationButton, mqttReturned, published>>
  /\ UNCHANGED <<connVars, configVars, serverVars>>
  /\ AuxFrame

\* NetLoop setting READY_TO_SEND once the network is associated.
NetLoop_SetsReady ==
  /\ pc = "net_loop"
  /\ IF wifi
     THEN /\ pc' = "mqtt_check"
          /\ netReturned' = TRUE
          /\ deviceStatus' = "READY_TO_SEND"
     ELSE /\ pc' = "net_begin"
          /\ netReturned' = netReturned
          /\ deviceStatus' = deviceStatus
  /\ lastCall' = "none"
  /\ UNCHANGED <<configurationButton, mqttReturned, published>>
  /\ UNCHANGED <<connVars, configVars, serverVars>>
  /\ AuxFrame

\* connectToNetwork, the while condition: leaves the loop (and the function)
\* when associated, otherwise goes on to another attempt.
NetLoop ==
  /\ pc = "net_loop"
  /\ IF wifi
     THEN /\ pc' = "mqtt_check"
          /\ netReturned' = TRUE
     ELSE /\ pc' = "net_begin"
          /\ netReturned' = netReturned
  /\ lastCall' = "none"
  /\ UNCHANGED <<deviceStatus, configurationButton, mqttReturned, published>>
  /\ UNCHANGED <<connVars, configVars, serverVars>>
  /\ AuxFrame

\* connectToNetwork, the loop body: WiFi.begin and the 4 s backoff, after
\* which the association has succeeded (ok) or not.
NetBegin(ok) ==
  /\ pc = "net_begin"
  /\ wifi' = ok
  /\ lastCall' = IF ok THEN "wifi_begin_ok" ELSE "wifi_begin_fail"
  /\ pc' = "net_loop"
  /\ UNCHANGED <<deviceStatus, configurationButton, mqttConn, losses>>
  /\ UNCHANGED <<configVars, iterVars, serverVars>>
  /\ AuxFrame

\* MqttCheck lighting the red channel itself when it sets NOT_READY.
MqttCheck_ShowsRed ==
  /\ pc = "mqtt_check"
  /\ IF mqttConn
     THEN /\ pc' = "publish_check"
          /\ mqttReturned' = TRUE
          /\ deviceStatus' = deviceStatus
          /\ lit' = lit
     ELSE /\ pc' = "mqtt_loop"
          /\ mqttReturned' = mqttReturned
          /\ deviceStatus' = "NOT_READY"
          /\ lit' = lit \cup {"red"}
  /\ lastCall' = "none"
  /\ cyclesEnded' = (IF deviceStatus' # deviceStatus THEN 0 ELSE cyclesEnded)
  /\ UNCHANGED <<configurationButton, netReturned, published>>
  /\ UNCHANGED <<connVars, configVars, serverVars>>
  /\ UNCHANGED <<boots, pureVars, visPc, visStatus, visCount, shown>>

\* connectToMqttBroker, entry: returns at once when connected, otherwise sets
\* NOT_READY, configures the client and enters the retry loop.
MqttCheck ==
  /\ pc = "mqtt_check"
  /\ IF mqttConn
     THEN /\ pc' = "publish_check"
          /\ mqttReturned' = TRUE
          /\ deviceStatus' = deviceStatus
     ELSE /\ pc' = "mqtt_loop"
          /\ mqttReturned' = mqttReturned
          /\ deviceStatus' = "NOT_READY"
  /\ lastCall' = "none"
  /\ UNCHANGED <<configurationButton, netReturned, published>>
  /\ UNCHANGED <<connVars, configVars, serverVars>>
  /\ AuxFrame

\* connectToMqttBroker, the while condition.
MqttLoop ==
  /\ pc = "mqtt_loop"
  /\ IF mqttConn
     THEN /\ pc' = "publish_check"
          /\ mqttReturned' = TRUE
     ELSE /\ pc' = "mqtt_connect"
          /\ mqttReturned' = mqttReturned
  /\ lastCall' = "none"
  /\ UNCHANGED <<deviceStatus, configurationButton, netReturned, published>>
  /\ UNCHANGED <<connVars, configVars, serverVars>>
  /\ AuxFrame

\* MqttConnect giving up after a failed attempt: the function returns instead
\* of retrying.
MqttConnect_GivesUp(ok) ==
  /\ pc = "mqtt_connect"
  /\ ok => wifi
  /\ IF ok
     THEN /\ mqttConn' = TRUE
          /\ deviceStatus' = "READY_TO_SEND"
          /\ lastCall' = "mqtt_connect_ok"
          /\ pc' = "mqtt_loop"
          /\ mqttReturned' = mqttReturned
     ELSE /\ mqttConn' = FALSE
          /\ deviceStatus' = deviceStatus
          /\ lastCall' = "mqtt_connect_fail"
          /\ pc' = "publish_check"
          /\ mqttReturned' = TRUE
  /\ UNCHANGED <<configurationButton, wifi, losses, netReturned, published>>
  /\ UNCHANGED <<configVars, serverVars>>
  /\ AuxFrame

\* connectToMqttBroker, the loop body: mqtt.connect, which succeeds (ok) only
\* over an associated network; success sets READY_TO_SEND, failure waits the
\* 4 s backoff.
MqttConnect(ok) ==
  /\ pc = "mqtt_connect"
  /\ ok => wifi
  /\ IF ok
     THEN /\ mqttConn' = TRUE
          /\ deviceStatus' = "READY_TO_SEND"
          /\ lastCall' = "mqtt_connect_ok"
     ELSE /\ mqttConn' = FALSE
          /\ deviceStatus' = deviceStatus
          /\ lastCall' = "mqtt_connect_fail"
  /\ pc' = "mqtt_loop"
  /\ UNCHANGED <<configurationButton, wifi, losses>>
  /\ UNCHANGED <<configVars, iterVars, serverVars>>
  /\ AuxFrame

\* PublishCheck without the test of the device status.
PublishCheck_Unconditional ==
  /\ pc = "publish_check"
  /\ published' = published + 1
  /\ lastCall' = "publish"
  /\ pc' = "delay"
  /\ UNCHANGED <<deviceStatus, configurationButton, netReturned, mqttReturned>>
  /\ UNCHANGED <<connVars, configVars, serverVars>>
  /\ AuxFrame

\* The payload action of loop(): publish when the status is READY_TO_SEND.
PublishCheck ==
  /\ pc = "publish_check"
  /\ IF deviceStatus = "READY_TO_SEND"
     THEN /\ published' = published + 1
          /\ lastCall' = "publish"
     ELSE /\ published' = published
          /\ lastCall' = "none"
  /\ pc' = "delay"
  /\ UNCHANGED <<deviceStatus, configurationButton, netReturned, mqttReturned>>
  /\ UNCHANGED <<connVars, configVars, serverVars>>
  /\ AuxFrame

\* delay(1600) at the end of loop(); loop() returns and is called again.
LoopDelay ==
  /\ pc = "delay"
  /\ pc' = "loop_top"
  /\ lastCall' = "none"
  /\ UNCHANGED <<deviceStatus, configurationButton>>
  /\ UNCHANGED <<connVars, configVars, iterVars, serverVars>>
  /\ AuxFrame

\* ------------------------------------------------------- renderConfigPage

\* The working record after a form submission: each field parsed out of the
\* request line, the port through stringToUint16.
SubmittedRecord(req) ==
  [k \in Keys |->
     IF k = PortKey
     THEN stringToUint16(parseFieldValue(req, KeyText(k)))
     ELSE parseFieldValue(req, KeyText(k))]

\* SubmittedRecord of every request line a client may send, computed once.
SubmittedRecordOf == [req \in Requests |-> SubmittedRecord(req)]

\* The fields of a record as the page shows them: text as it is, the port as
\* String(_mqttServerPort).
ShownValues(record) ==
  [k \in Keys |-> IF k = PortKey THEN UInt16ToString(record[k]) ELSE record[k]]

\* PageOf answering 404 Not Found to a request that is not a submission.
PageOf_NotFound(record, isSubmission) ==
  [status |-> IF isSubmission THEN 200 ELSE 404,
   contentType |-> "text/html", connection |-> "close",
   success |-> isSubmission,
   echo |-> IF isSubmission THEN ShownValues(record) ELSE [k \in {} |-> <<>>],
   form |-> ShownValues(record)]

\* IsSubmission taking every request line for a submission.
IsSubmission_Always(req) == TRUE

\* The submission test of renderConfigPage: the request line contains
\* "/configuration".
IsSubmission(req) == IndexOf(req, SubmissionPath) # -1

\* The response renderConfigPage sends: the fixed header lines, the success
\* section with the saved values after a submission, and the form filled
\* with the working record.
PageOf(record, isSubmission) ==
  [status |-> 200, contentType |-> "text/html", connection |-> "close",
   success |-> isSubmission,
   echo |-> IF isSubmission THEN ShownValues(record) ELSE [k \in {} |-> <<>>],
   form |-> ShownValues(record)]

\* renderConfigPage, entry: _configServerInstance.available(); returns at
\* once when no client is pending.
RenderAccept ==
  /\ pc = "render"
  /\ IF client = "none"
     THEN /\ pc' = "loop_top"
          /\ lastCall' = "render_idle"
     ELSE /\ pc' = "render_wait"
          /\ lastCall' = "none"
  /\ UNCHANGED <<deviceStatus, configurationButton>>
  /\ UNCHANGED <<connVars, configVars, iterVars, serverVars>>
  /\ AuxFrame

\* renderConfigPage, from the end of the wait for the client's data on: the
\* wait loop ends only when the client has sent something; then the first
\* line is read, a submission is parsed and saved, and the page is sent.
RenderServe ==
  /\ pc = "render_wait"
  /\ client = "sent"
  /\ request' = clientData
  /\ IF IsSubmission(clientData)
     THEN LET submitted == SubmittedRecordOf[clientData]
          IN  /\ prefs' = submitted
              /\ nvs' = SavedStore(nvs, preferencesNamespace, submitted)
              /\ page' = PageOf(submitted, TRUE)
              /\ lastCall' = "render_submission"
     ELSE /\ prefs' = prefs
          /\ nvs' = nvs
          /\ page' = PageOf(prefs, FALSE)
          /\ lastCall' = "render_form"
  /\ reads' = reads + 1
  /\ responses' = responses + 1
  /\ client' = "none"
  /\ clientData' = <<>>
  /\ pc' = "loop_top"
  /\ UNCHANGED <<deviceStatus, configurationButton, preferencesNamespace,
                 isConfigValid, serverStarted>>
  /\ UNCHANGED <<configServerPort, listenPort, calls>>
  /\ UNCHANGED <<connVars, iterVars>>
  /\ AuxFrame

\* ------------------------------------------------------------ environment

\* The Wi-Fi association is lost.
WifiLoss ==
  /\ wifi
  /\ losses < MaxLoss
  /\ wifi' = FALSE
  /\ losses' = losses + 1
  /\ UNCHANGED <<pc, deviceStatus, configurationButton, mqttConn, lastCall>>
  /\ UNCHANGED <<configVars, iterVars, serverVars>>
  /\ AuxFrame

\* The broker session is lost.
BrokerLoss ==
  /\ mqttConn
  /\ losses < MaxLoss
  /\ mqttConn' = FALSE
  /\ losses' = losses + 1
  /\ UNCHANGED <<pc, deviceStatus, configurationButton, wifi, lastCall>>
  /\ UNCHANGED <<configVars, iterVars, serverVars>>
  /\ AuxFrame

\* A client connects to the configuration server.
ClientConnect ==
  /\ serverStarted > 0
  /\ client = "none"
  /\ client' = "connected"
  /\ reads' = 0
  /\ responses' = 0
  /\ UNCHANGED <<pc, deviceStatus, configurationButton, clientData, request, page, lastCall>>
  /\ UNCHANGED <<connVars, configVars, iterVars>>
  /\ AuxFrame

\* The connected client sends a request line.
ClientSend(req) ==
  /\ client = "connected"
  /\ client' = "sent"
  /\ clientData' = req
  /\ UNCHANGED <<pc, deviceStatus, configurationButton, request, page, lastCall,
                 reads, responses>>
  /\ UNCHANGED <<connVars, configVars, iterVars>>
  /\ AuxFrame

\* StoreAfterRestart losing the configuration namespace.
StoreAfterRestart_Cleared(store) == ClearedStore(store, "SMAF-DK")

\* The store across a restart: Preferences keeps it in flash, so the next
\* boot finds what the last put left.
StoreAfterRestart(store) == store

\* The device is restarted (reset button or power cycle): every global is
\* initialised again, connections are gone, the store stays, and the button
\* is at either level when the new boot reads it.
Restart ==
  /\ pc \in AllPcs
  /\ boots < MaxBoots
  /\ boots' = boots + 1
  /\ nvs' = StoreAfterRestart(nvs)
  /\ pc' = "setup_load"
  /\ deviceStatus' = "NONE"
  /\ configurationButton' \in {"LOW", "HIGH"}
  /\ preferencesNamespace' = ""
  /\ prefs' = EmptyRecord
  /\ isConfigValid' = FALSE
  /\ serverStarted' = 0
  /\ listenPort' = 0
  /\ wifi' = FALSE
  /\ mqttConn' = FALSE
  /\ losses' = 0
  /\ netReturned' = FALSE
  /\ mqttReturned' = FALSE
  /\ published' = 0
  /\ lastCall' = "restart"
  /\ client' = "none"
  /\ clientData' = <<>>
  /\ request' = <<>>
  /\ page' = NoPage
  /\ reads' = 0
  /\ responses' = 0
  /\ UNCHANGED <<configServerPort, calls, pureVars, visVars>>

\* ------------------------------------------- WiFiConfig called directly

\* The working records a direct caller starts from: empty, populated,
\* populated with a space in a text and the largest port, populated with the
\* smallest port, and one with an empty field.
ApiRecords ==
  { EmptyRecord,
    StoredValid,
    [StoredValid EXCEPT !["netName"] = <<97, 32, 98, 32, 99>>, ![PortKey] = UINT16_MAX],
    [StoredValid EXCEPT ![PortKey] = 1],
    [StoredValid EXCEPT !["mqttUser"] = <<>>] }

\* A WiFiConfig object after construction whose methods are called directly,
\* in any order: the namespace is not set yet, the store is empty or holds a
\* populated record.
ApiInit ==
  /\ pc = "api"
  /\ deviceStatus = "NONE"
  /\ configurationButton = "LOW"
  /\ preferencesNamespace = ""
  /\ prefs \in ApiRecords
  /\ isConfigValid = FALSE
  /\ \E contents \in {[k \in {} |-> <<>>], StoredValid} :
       nvs = [n \in Namespaces |-> IF n = "SMAF-DK" THEN contents ELSE [k \in {"x"} |-> T_xyz]]
  /\ serverStarted = 0
  /\ wifi = FALSE
  /\ mqttConn = FALSE
  /\ losses = 0
  /\ netReturned = FALSE
  /\ mqttReturned = FALSE
  /\ published = 0
  /\ lastCall = "none"
  /\ client = "none"
  /\ clientData = <<>>
  /\ request = <<>>
  /\ page = NoPage
  /\ configServerPort \in ConfigServerPorts
  /\ listenPort = 0
  /\ reads = 0
  /\ responses = 0
  /\ calls = <<>>
  /\ AuxIdle

\* calls with one more call: the method, the namespace it works on and the
\* working record at the time of the call.
Called(op, ns) == Append(calls, [op |-> op, ns |-> ns, record |-> prefs])

\* WiFiConfig::setPreferencesNamespace.
ApiSetPreferencesNamespace(name) ==
  /\ pc = "api"
  /\ Len(calls) < MaxCalls
  /\ preferencesNamespace' = name
  /\ calls' = Called("setPreferencesNamespace", name)
  /\ lastCall' = "setPreferencesNamespace"
  /\ UNCHANGED <<pc, deviceStatus, configurationButton, prefs, isConfigValid, nvs,
                 serverStarted, configServerPort, listenPort>>
  /\ UNCHANGED <<connVars, iterVars, serverVars>>
  /\ AuxFrame

\* WiFiConfig::loadPreferences.
ApiLoadPreferences ==
  /\ pc = "api"
  /\ Len(calls) < MaxCalls
  /\ prefs' = LoadedRecord(nvs, preferencesNamespace)
  /\ isConfigValid' = ComputeValid(LoadedRecord(nvs, preferencesNamespace))
  /\ calls' = Called("loadPreferences", preferencesNamespace)
  /\ lastCall' = "loadPreferences"
  /\ UNCHANGED <<pc, deviceStatus, configurationButton, preferencesNamespace, nvs,
                 serverStarted, configServerPort, listenPort>>
  /\ UNCHANGED <<connVars, iterVars, serverVars>>
  /\ AuxFrame

\* WiFiConfig::savePreferences.
ApiSavePreferences ==
  /\ pc = "api"
  /\ Len(calls) < MaxCalls
  /\ nvs' = SavedStore(nvs, preferencesNamespace, prefs)
  /\ calls' = Called("savePreferences", preferencesNamespace)
  /\ lastCall' = "savePreferences"
  /\ UNCHANGED <<pc, deviceStatus, configurationButton, preferencesNamespace, prefs,
                 isConfigValid, serverStarted, configServerPort, listenPort>>
  /\ UNCHANGED <<connVars, iterVars, serverVars>>
  /\ AuxFrame

\* WiFiConfig::clearPreferencesInNamespace.
ApiClearPreferencesInNamespace(name) ==
  /\ pc = "api"
  /\ Len(calls) < MaxCalls
  /\ nvs' = ClearedStore(nvs, name)
  /\ calls' = Called("clearPreferencesInNamespace", name)
  /\ lastCall' = "clearPreferencesInNamespace"
  /\ UNCHANGED <<pc, deviceStatus, configurationButton, preferencesNamespace, prefs,
                 isConfigValid, serverStarted, configServerPort, listenPort>>
  /\ UNCHANGED <<connVars, iterVars, serverVars>>
  /\ AuxFrame

\* ------------------------------------------------------ DeviceStatusThread

\* How many green pulses the READY_TO_SEND burst has.
BurstCount == 4

\* The steps of the thread inside a case: a digitalWrite that lights a
\* channel or puts it out, or a delay.
WriteStep(channel, on) == [op |-> "write", channel |-> channel, on |-> on, ms |-> 0]
DelayStep(ms) == [op |-> "delay", channel |-> "", on |-> FALSE, ms |-> ms]

\* Pulse without the digitalWrite that puts the channel out.
Pulse_StaysOn(channel, ms) ==
  <<WriteStep(channel, TRUE), DelayStep(ms), DelayStep(ms)>>

\* One pulse of a channel: on, delay, off, delay.
Pulse(channel, ms) ==
  <<WriteStep(channel, TRUE), DelayStep(ms), WriteStep(channel, FALSE), DelayStep(ms)>>

\* The steps of seq, n times over.
RECURSIVE Repeat(_, _)
Repeat(seq, n) == IF n = 0 THEN <<>> ELSE seq \o Repeat(seq, n - 1)

\* VisProgram lighting the green channel as well in maintenance mode.
VisProgram_White(status) ==
  CASE status = "NONE" ->
         <<WriteStep("red", FALSE), WriteStep("green", FALSE), WriteStep("blue", FALSE)>>
    [] status = "NOT_READY" -> Pulse("red", 160)
    [] status = "READY_TO_SEND" -> Repeat(Pulse("green", 40), BurstCount) \o <<DelayStep(1200)>>
    [] status = "WAITING_GNSS" -> Pulse("blue", 160)
    [] status = "MAINTENANCE_MODE" ->
         <<WriteStep("blue", TRUE), WriteStep("red", TRUE), WriteStep("green", TRUE),
           DelayStep(160),
           WriteStep("blue", FALSE), WriteStep("red", FALSE), WriteStep("green", FALSE),
           DelayStep(160)>>

\* The steps of each case of the switch in DeviceStatusThread.
VisProgram(status) ==
  CASE status = "NONE" ->
         <<WriteStep("red", FALSE), WriteStep("green", FALSE), WriteStep("blue", FALSE)>>
    [] status = "NOT_READY" -> Pulse("red", 160)
    [] status = "READY_TO_SEND" -> Repeat(Pulse("green", 40), BurstCount) \o <<DelayStep(1200)>>
    [] status = "WAITING_GNSS" -> Pulse("blue", 160)
    [] status = "MAINTENANCE_MODE" ->
         <<WriteStep("blue", TRUE), WriteStep("red", TRUE), DelayStep(160),
           WriteStep("blue", FALSE), WriteStep("red", FALSE), DelayStep(160)>>

\* What the thread leaves alone: everything but its own position and the
\* indicator channels.
VisFrame ==
  /\ UNCHANGED <<pc, deviceStatus, configurationButton, lastCall, boots>>
  /\ UNCHANGED <<connVars, configVars, iterVars, serverVars, pureVars>>

\* The head of the thread's loop: the three channels are put out, one
\* digitalWrite at a time.
VisShutOff ==
  /\ visPc \in {"off_red", "off_green", "off_blue"}
  /\ lit' = lit \ {CASE visPc = "off_red" -> "red"
                     [] visPc = "off_green" -> "green"
                     [] visPc = "off_blue" -> "blue"}
  /\ visPc' = (CASE visPc = "off_red" -> "off_green"
                 [] visPc = "off_green" -> "off_blue"
                 [] visPc = "off_blue" -> "switch")
  /\ UNCHANGED <<visStatus, visCount, shown, cyclesEnded>>
  /\ VisFrame

\* VisSwitch reading deviceStatus in the first cycle only.
VisSwitch_ReadsOnce ==
  /\ visPc = "switch"
  /\ visStatus' = (IF visStatus = "NONE" THEN deviceStatus ELSE visStatus)
  /\ visCount' = 0
  /\ visPc' = "case"
  /\ UNCHANGED <<lit, shown, cyclesEnded>>
  /\ VisFrame

\* switch (deviceStatus): the shared status is read once and selects the case.
VisSwitch ==
  /\ visPc = "switch"
  /\ visStatus' = deviceStatus
  /\ visCount' = 0
  /\ visPc' = "case"
  /\ UNCHANGED <<lit, shown, cyclesEnded>>
  /\ VisFrame

\* The next step of the selected case.
VisStep ==
  /\ visPc = "case"
  /\ visCount < Len(VisProgram(visStatus))
  /\ LET step == VisProgram(visStatus)[visCount + 1]
     IN  /\ lit' = (IF step.op = "write"
                    THEN (IF step.on THEN lit \cup {step.channel} ELSE lit \ {step.channel})
                    ELSE lit)
         /\ shown' = (IF step.op = "delay" THEN Append(shown, lit) ELSE shown)
  /\ visCount' = visCount + 1
  /\ UNCHANGED <<visPc, visStatus, cyclesEnded>>
  /\ VisFrame

\* break: the case is done and the loop starts over.
VisBreak ==
  /\ visPc = "case"
  /\ visCount = Len(VisProgram(visStatus))
  /\ visPc' = "off_red"
  /\ visCount' = 0
  /\ shown' = <<>>
  /\ cyclesEnded' = Min(cyclesEnded + 1, MaxCycles)
  /\ UNCHANGED <<visStatus, lit>>
  /\ VisFrame

\* ------------------------------------------- the helper functions alone

\* The keys and the raw values of the generated bodies: keys "a", "c" and
\* "ab"; values "1", "a", "+x+" and "+a+b+".
PairKeys == {<<97>>, <<99>>, <<97, 98>>}
PairValues == {<<49>>, <<97>>, <<43, 120, 43>>, <<43, 97, 43, 98, 43>>}

\* The lists of one to MaxPairs key=value pairs.
PairLists == UNION {[1..n -> PairKeys \X PairValues] : n \in 1..MaxPairs}

\* "k1=v1&k2=v2..." for a list of pairs.
RECURSIVE JoinPairs(_)
JoinPairs(pairs) ==
  IF pairs = <<>> THEN <<>>
  ELSE Head(pairs)[1] \o <<61>> \o Head(pairs)[2]
       \o (IF Tail(pairs) = <<>> THEN <<>> ELSE <<CH_AMP>> \o JoinPairs(Tail(pairs)))

\* The body of a submission as parseFieldValue gets it: the pairs, then
\* " HTTP/1.1".
BodyOf(pairs) == JoinPairs(pairs) \o T_Http11

\* The field identifiers asked for: the keys, and "z", which no body holds.
FieldIds == PairKeys \cup {<<122>>}

\* Texts given to the helper functions besides the generated bodies.
FreeTexts ==
  { <<97, 61, 98>>,  \* "a=b"
    <<97, 61, 120, 37, 50, 54, 121, 32, 72, 84, 84, 80, 47, 49, 46, 49>>,  \* "a=x%26y HTTP/1.1"
    <<97, 61, 120, 37, 51, 68, 121, 38, 99, 61, 100, 32, 72, 84, 84, 80, 47, 49, 46, 49>>,  \* "a=x%3Dy&c=d HTTP/1.1"
    <<99, 61, 37, 50, 54, 37, 51, 68, 38, 97, 61, 49, 32, 72, 84, 84, 80, 47, 49, 46, 49>>,  \* "c=%26%3D&a=1 HTTP/1.1"
    <<97, 61, 98, 38, 99, 61, 100, 32, 72, 84, 84, 80, 47, 49, 46, 49>>,  \* "a=b&c=d HTTP/1.1"
    <<97, 61, 49, 32, 72, 84, 84, 80, 38, 98, 61, 50>>,  \* "a=1 HTTP&b=2"
    <<97, 61, 43, 97, 43, 98, 43, 32, 72, 84, 84, 80, 47, 49, 46, 49>>,  \* "a=+a+b+ HTTP/1.1"
    <<97, 61, 43, 43, 32, 72, 84, 84, 80, 47, 49, 46, 49>>,  \* "a=++ HTTP/1.1"
    <<104, 101, 108, 108, 111>>,  \* "hello"
    <<97, 37, 50, 48, 98, 43, 99>>,  \* "a%20b+c"
    <<37, 52, 49>>,  \* "%41"
    <<37, 122, 122>>,  \* "%zz"
    <<37, 50, 66>>,  \* "%2B"
    <<37, 50, 53, 52, 49>>,  \* "%2541"
    <<37, 52, 102, 37, 52, 70>>,  \* "%4f%4F"
    <<37, 52>>,  \* "%4"
    <<>>,  \* ""
    <<54, 53, 53, 51, 53>>,  \* "65535"
    <<57, 57, 57, 57, 57>>,  \* "99999"
    <<97, 98, 99>>,  \* "abc"
    <<48>>,  \* "0"
    <<49, 50, 97, 98, 99>>,  \* "12abc"
    <<45, 53>>,  \* "-5"
    <<32, 52, 50>>,  \* " 42"
    <<54, 53, 53, 51, 54>>,  \* "65536"
    <<52, 50, 57, 52, 57, 54, 55, 50, 57, 55>>,  \* "4294967297"
    <<48, 48, 48, 56, 48>>   \* "00080"
  }

\* The inputs of the helper functions: a text, a field identifier, and the
\* pairs the text was generated from (none for a free text).
PureInputs ==
  {[data |-> BodyOf(p), fieldId |-> k, pairs |-> p] : p \in PairLists, k \in FieldIds}
  \cup {[data |-> t, fieldId |-> k, pairs |-> <<>>] : t \in FreeTexts, k \in FieldIds}

\* A WiFiConfig object whose helper functions are applied to an input.
PureInit ==
  /\ pc = "pure"
  /\ deviceStatus = "NONE"
  /\ configurationButton = "LOW"
  /\ preferencesNamespace = ""
  /\ prefs = EmptyRecord
  /\ isConfigValid = FALSE
  /\ nvs = [n \in Namespaces |-> [k \in {} |-> <<>>]]
  /\ serverStarted = 0
  /\ wifi = FALSE
  /\ mqttConn = FALSE
  /\ losses = 0
  /\ netReturned = FALSE
  /\ mqttReturned = FALSE
  /\ published = 0
  /\ lastCall = "none"
  /\ client = "none"
  /\ clientData = <<>>
  /\ request = <<>>
  /\ page = NoPage
  /\ configServerPort = ServerInstancePort
  /\ listenPort = 0
  /\ reads = 0
  /\ responses = 0
  /\ calls = <<>>
  /\ boots = 0
  /\ fn = "none"
  /\ arg \in PureInputs
  /\ out = <<>>
  /\ visPc = "off_red"
  /\ visStatus = "NONE"
  /\ visCount = 0
  /\ lit = {}
  /\ shown = <<>>
  /\ cyclesEnded = 0

\* What a helper function leaves alone: everything but fn and out.
PureFrame ==
  /\ UNCHANGED <<pc, deviceStatus, configurationButton, lastCall, arg, boots>>
  /\ UNCHANGED <<connVars, configVars, iterVars, serverVars, visVars>>

\* WiFiConfig::parseFieldValue applied to the text and the field identifier.
ApplyParseFieldValue ==
  /\ pc = "pure"
  /\ fn' = "parseFieldValue"
  /\ out' = parseFieldValue(arg.data, arg.fieldId)
  /\ PureFrame

\* WiFiConfig::decodeResponse applied to the text.
ApplyDecodeResponse ==
  /\ pc = "pure"
  /\ fn' = "decodeResponse"
  /\ out' = decodeResponse(arg.data)
  /\ PureFrame

\* WiFiConfig::removeSpaces applied to the text.
ApplyRemoveSpaces ==
  /\ pc = "pure"
  /\ fn' = "removeSpaces"
  /\ out' = removeSpaces(arg.data)
  /\ PureFrame

\* WiFiConfig::stringToUint16 applied to the text.
ApplyStringToUint16 ==
  /\ pc = "pure"
  /\ fn' = "stringToUint16"
  /\ out' = stringToUint16(arg.data)
  /\ PureFrame

\* ---------------------------------------------------------- specifications

\* The steps of the main flow.
Main ==
  \/ SetupLoad
  \/ SetupDecide
  \/ LoopTop
  \/ NetCheck
  \/ NetLoop
  \/ \E ok \in BOOLEAN : NetBegin(ok)
  \/ MqttCheck
  \/ MqttLoop
  \/ \E ok \in BOOLEAN : MqttConnect(ok)
  \/ PublishCheck
  \/ LoopDelay
  \/ RenderAccept
  \/ RenderServe

\* The steps of the environment.
Environment ==
  \/ WifiLoss
  \/ BrokerLoss
  \/ ClientConnect
  \/ \E req \in Requests : ClientSend(req)

Next == Main \/ Environment

Spec == Init /\ [][Next]_vars

\* The main flow keeps running, and an association attempt and a broker
\* connect attempt that are retried again and again eventually succeed.
LiveSpec ==
  /\ Init
  /\ [][Next]_vars
  /\ WF_vars(Main)
  /\ SF_vars(NetBegin(TRUE))
  /\ SF_vars(MqttConnect(TRUE))

\* LiveSpec with clients that send their request line once connected.
LiveSpecClientSends ==
  /\ LiveSpec
  /\ WF_vars(\E req \in Requests : ClientSend(req))

\* The program over several boots.
BootNext == Next \/ Restart

BootSpec == Init /\ [][BootNext]_vars

\* The methods of WiFiConfig that work on the store, called in any order.
ApiNext ==
  \/ \E name \in Namespaces : ApiSetPreferencesNamespace(name)
  \/ ApiLoadPreferences
  \/ ApiSavePreferences
  \/ \E name \in Namespaces : ApiClearPreferencesInNamespace(name)

ApiSpec == ApiInit /\ [][ApiNext]_vars

\* The steps of DeviceStatusThread.
VisThread ==
  \/ VisShutOff
  \/ VisSwitch
  \/ VisStep
  \/ VisBreak

\* The main flow without configuration clients, and the thread beside it.
VisNext ==
  \/ SetupLoad
  \/ SetupDecide
  \/ LoopTop
  \/ NetCheck
  \/ NetLoop
  \/ \E ok \in BOOLEAN : NetBegin(ok)
  \/ MqttCheck
  \/ MqttLoop
  \/ \E ok \in BOOLEAN : MqttConnect(ok)
  \/ PublishCheck
  \/ LoopDelay
  \/ RenderAccept
  \/ WifiLoss
  \/ BrokerLoss
  \/ VisThread

VisSpec == Init /\ [][VisNext]_vars

\* DeviceStatusThread beside a writer of deviceStatus that may assign any
\* value of the enumeration at any moment.
ThreadInit ==
  /\ pc = "thread"
  /\ deviceStatus = "NONE"
  /\ configurationButton = "LOW"
  /\ preferencesNamespace = ""
  /\ prefs = EmptyRecord
  /\ isConfigValid = FALSE
  /\ nvs = [n \in Namespaces |-> [k \in {} |-> <<>>]]
  /\ serverStarted = 0
  /\ wifi = FALSE
  /\ mqttConn = FALSE
  /\ losses = 0
  /\ netReturned = FALSE
  /\ mqttReturned = FALSE
  /\ published = 0
  /\ lastCall = "none"
  /\ client = "none"
  /\ clientData = <<>>
  /\ request = <<>>
  /\ page = NoPage
  /\ configServerPort = ServerInstancePort
  /\ listenPort = 0
  /\ reads = 0
  /\ responses = 0
  /\ calls = <<>>
  /\ AuxIdle

\* An assignment to the global deviceStatus that changes its value.
StatusWrite(s) ==
  /\ pc = "thread"
  /\ s # deviceStatus
  /\ deviceStatus' = s
  /\ UNCHANGED <<pc, configurationButton, lastCall>>
  /\ UNCHANGED <<connVars, configVars, iterVars, serverVars>>
  /\ AuxFrame

ThreadNext ==
  \/ \E s \in Statuses : StatusWrite(s)
  \/ VisThread

ThreadSpec == ThreadInit /\ [][ThreadNext]_vars

\* ThreadSpec with the task scheduled again and again.
ThreadLiveSpec ==
  /\ ThreadInit
  /\ [][ThreadNext]_vars
  /\ WF_vars(VisThread)

\* The helper functions of WiFiConfig applied to an input.
PureNext ==
  \/ ApplyParseFieldValue
  \/ ApplyDecodeResponse
  \/ ApplyRemoveSpaces
  \/ ApplyStringToUint16

PureSpec == PureInit /\ [][PureNext]_vars

\* ------------------------------------------------------------ properties

\* The "SMAF-DK" namespace holds all eight keys, every text non-empty and the
\* port not 0.
StoredConfigComplete ==
  /\ \A k \in Keys : k \in DOMAIN nvs["SMAF-DK"]
  /\ \A k \in TextKeys : Len(nvs["SMAF-DK"][k]) > 0
  /\ nvs["SMAF-DK"][PortKey] # 0

\* C1: at the end of setup the status is MAINTENANCE_MODE exactly when the
\* button reads HIGH or the stored configuration is incomplete, and NOT_READY
\* otherwise; a fresh device with the button unpressed ends in
\* MAINTENANCE_MODE.
C1_SetupDecision ==
  lastCall = "setup" =>
    /\ deviceStatus = (IF configurationButton = "HIGH" \/ ~StoredConfigComplete
                       THEN "MAINTENANCE_MODE" ELSE "NOT_READY")
    /\ (DOMAIN nvs["SMAF-DK"] = {} /\ configurationButton = "LOW"
          => deviceStatus = "MAINTENANCE_MODE")

\* A fresh device whose button is not pressed has finished setup in
\* maintenance mode.
C1_Witness ==
  /\ lastCall = "setup"
  /\ DOMAIN nvs["SMAF-DK"] = {}
  /\ configurationButton = "LOW"
  /\ deviceStatus = "MAINTENANCE_MODE"

\* C2: once the status is MAINTENANCE_MODE it stays so, and from then on the
\* main flow is only in the maintenance loop and renderConfigPage: no step
\* attempts an association or a broker connection, and none publishes.
C2_MaintenanceIsFinal ==
  [][deviceStatus = "MAINTENANCE_MODE" =>
       /\ deviceStatus' = "MAINTENANCE_MODE"
       /\ pc' \in RenderPcs \cup {"loop_top"}
       /\ lastCall' \notin {"wifi_begin_ok", "wifi_begin_fail", "mqtt_connect_ok",
                            "mqtt_connect_fail", "publish"}
       /\ wifi' = wifi /\ mqttConn' = mqttConn /\ published' = 0]_vars

\* In maintenance mode a submission has been served, with a valid
\* configuration in the store and the button held.
C2_Witness ==
  /\ deviceStatus = "MAINTENANCE_MODE"
  /\ lastCall = "render_submission"
  /\ isConfigValid
  /\ configurationButton = "HIGH"

\* C3: the broker connection is attempted, and connectToMqttBroker entered,
\* only after connectToNetwork has returned in the same loop iteration, and
\* connectToNetwork returns only on observing the network associated.
C3_NetworkBeforeBroker ==
  /\ [](pc \in MqttPcs \/ lastCall \in {"mqtt_connect_ok", "mqtt_connect_fail"} => netReturned)
  /\ [][(netReturned' /\ ~netReturned) => (wifi /\ pc \in NetPcs)]_vars

\* A broker connect attempt has been made, after the association that
\* connectToNetwork observed was lost again.
C3_Witness ==
  /\ lastCall = "mqtt_connect_fail"
  /\ netReturned
  /\ ~wifi

\* C4: the status becomes READY_TO_SEND only in the step in which
\* mqtt.connect returns success, from NOT_READY, in a loop iteration in which
\* connectToNetwork has observed the association.
C4_ReadyOnlyOnConnect ==
  [][(deviceStatus' = "READY_TO_SEND" /\ deviceStatus # "READY_TO_SEND") =>
       /\ pc = "mqtt_connect"
       /\ deviceStatus = "NOT_READY"
       /\ netReturned
       /\ lastCall' = "mqtt_connect_ok"
       /\ mqttConn']_vars

\* The broker connect has just succeeded and raised the status.
C4_Witness ==
  /\ lastCall = "mqtt_connect_ok"
  /\ deviceStatus = "READY_TO_SEND"
  /\ mqttConn

\* The main flow is past setup in a normal (non-maintenance) boot.
NormalBoot == pc \notin SetupPcs /\ deviceStatus # "MAINTENANCE_MODE"

\* Attempts that are retried again and again eventually succeed.
AttemptsEventuallySucceed ==
  /\ []<>(lastCall = "wifi_begin_fail") => []<>(lastCall = "wifi_begin_ok")
  /\ []<>(lastCall = "mqtt_connect_fail") => []<>(lastCall = "mqtt_connect_ok")

\* C5: in a normal boot, if retried attempts eventually succeed, the device
\* eventually publishes from every reachable state, also after a loss of the
\* network or of the broker session.
C5_EventuallyPublishes ==
  AttemptsEventuallySucceed => [](NormalBoot => <>(lastCall = "publish"))

\* C6: mqtt.publish is called at most once per loop iteration, only with the
\* status READY_TO_SEND at the check, and only after connectToNetwork and
\* connectToMqttBroker have both returned in that iteration.
C6_PublishOncePerIteration ==
  /\ [](published <= 1)
  /\ [][published' > published =>
          /\ pc = "publish_check"
          /\ deviceStatus = "READY_TO_SEND"
          /\ netReturned /\ mqttReturned
          /\ published = 0
          /\ lastCall' = "publish"]_vars

\* A loop iteration has published, in a boot that has seen a connection loss.
C6_Witness ==
  /\ published = 1
  /\ lastCall = "publish"
  /\ losses > 0

\* C7: in a normal boot, once connectToNetwork and connectToMqttBroker have
\* both returned, the status is READY_TO_SEND at the publish check.
C7_ReadyAtPublishCheck ==
  (pc = "publish_check" /\ netReturned /\ mqttReturned) => deviceStatus = "READY_TO_SEND"

\* C8: a failed attempt never ends a retry loop: connectToNetwork is left only
\* on observing the network associated, connectToMqttBroker only on observing
\* the broker connected, a failure leads back to the loop condition and from
\* there to another attempt, and the main flow is never anywhere else.
C8_RetryUntilConnected ==
  [][/\ (pc \in NetPcs /\ pc' \notin NetPcs) => (wifi /\ pc' = "mqtt_check")
     /\ (pc \in MqttPcs /\ pc' \notin MqttPcs) => (mqttConn /\ pc' = "publish_check")
     /\ (pc = "net_begin" /\ pc' # pc /\ ~wifi') => pc' = "net_loop"
     /\ (pc = "mqtt_connect" /\ pc' # pc /\ ~mqttConn') => pc' = "mqtt_loop"
     /\ (pc = "net_loop" /\ pc' # pc /\ ~wifi) => pc' = "net_begin"
     /\ (pc = "mqtt_loop" /\ pc' # pc /\ ~mqttConn) => pc' = "mqtt_connect"
     /\ pc' \in AllPcs]_vars

\* A broker connect attempt has failed and the retry loop goes on.
C8_Witness ==
  /\ lastCall = "mqtt_connect_fail"
  /\ pc = "mqtt_loop"
  /\ ~mqttConn

\* C9: whenever renderConfigPage has found a pending client, it eventually
\* sends a page and returns.
C9_RenderReturns ==
  (pc = "render_wait") ~> (pc = "loop_top" /\ lastCall \in {"render_form", "render_submission"})

\* C10: when renderConfigPage returns from a submission, the working record
\* holds the eight fields parsed from the request (the port through
\* stringToUint16), the store holds the same eight values, and the success
\* section of the page shows them.
C10_SubmissionSaved ==
  lastCall = "render_submission" =>
    /\ IndexOf(request, SubmissionPath) # -1
    /\ \A k \in TextKeys : prefs[k] = parseFieldValue(request, KeyText(k))
    /\ prefs[PortKey] = stringToUint16(parseFieldValue(request, MQTT_SERVER_PORT))
    /\ \A k \in Keys : k \in DOMAIN nvs["SMAF-DK"] /\ nvs["SMAF-DK"][k] = prefs[k]
    /\ page.success
    /\ \A k \in TextKeys : page.echo[k] = nvs["SMAF-DK"][k]
    /\ page.echo[PortKey] = UInt16ToString(nvs["SMAF-DK"][PortKey])
    /\ toInt(page.echo[PortKey]) = prefs[PortKey]

\* A submission with an encoded network name and port 65535 has been served
\* on a device whose store was empty.
C10_Witness ==
  /\ lastCall = "render_submission"
  /\ prefs["netName"] = <<97, 32, 98, 32, 99>>
  /\ prefs[PortKey] = UINT16_MAX
  /\ nvs["SMAF-DK"]["mqttTopic"] = T_t

\* Whether the request line holds no "<key>=" for the field k.
FieldAbsent(req, k) == IndexOf(req, KeyText(k) \o <<61>>) = -1

\* The submission that leaves the mqttUser field out.
SubmissionWithoutUser == SubmissionLine([k \in Keys \ {"mqttUser"} |-> FullValues[k]])

\* C11: after a submission in which a field is absent or unparseable, that
\* field is stored as empty text (the port as 0), the fields that are present
\* are stored as submitted, and a page has been sent.
C11_MissingFieldEmpty ==
  lastCall = "render_submission" =>
    /\ \A k \in TextKeys :
         FieldAbsent(request, k) => (prefs[k] = <<>> /\ nvs["SMAF-DK"][k] = <<>>)
    /\ FieldAbsent(request, PortKey) => (prefs[PortKey] = 0 /\ nvs["SMAF-DK"][PortKey] = 0)
    /\ request = SubmissionWithoutUser =>
         \A k \in Keys \ {"mqttUser"} : prefs[k] = StoredValid[k]
    /\ page.status = 200

\* C12: a renderConfigPage call that processes no submission leaves the
\* working record, the validity flag and the store unchanged; with no client
\* pending it also sends nothing and returns at once.
C12_NoSubmissionNoChange ==
  [][/\ (pc = "render" /\ client = "none" /\ pc' # pc) =>
          /\ pc' = "loop_top"
          /\ lastCall' = "render_idle"
          /\ UNCHANGED <<prefs, isConfigValid, nvs, page, request, responses>>
     /\ (pc = "render_wait" /\ pc' # pc /\ IndexOf(clientData, SubmissionPath) = -1) =>
          /\ UNCHANGED <<prefs, isConfigValid, nvs>>
          /\ ~page'.success
          /\ page'.form = ShownValues(prefs)]_vars

\* The bare form has been served from a populated working record.
C12_Witness ==
  /\ lastCall = "render_form"
  /\ request = T_GetRoot
  /\ prefs = StoredValid
  /\ ~page.success

\* C13: every request renderConfigPage handles gets exactly one response,
\* with status 200, content type text/html and Connection: close; no other
\* status is ever sent, and one request line at most is read per connection.
C13_OneResponse200 ==
  /\ [](/\ page.status \in {0, 200}
        /\ reads <= 1
        /\ responses = reads)
  /\ [][(pc = "render_wait" /\ pc' # pc) =>
          /\ page'.status = 200
          /\ page'.contentType = "text/html"
          /\ page'.connection = "close"
          /\ request' = clientData
          /\ reads' = 1 /\ responses' = 1
          /\ client' = "none"]_vars
  /\ [][(page' # page \/ responses' > responses \/ reads' > reads) => pc = "render_wait"]_vars

\* A request line that is no HTTP request at all has been answered.
C13_Witness ==
  /\ lastCall = "render_form"
  /\ request = T_xyz
  /\ page.status = 200
  /\ responses = 1

\* C14: startConfig has run exactly once when setup ended in
\* MAINTENANCE_MODE and not at all otherwise, never before the end of setup,
\* and renderConfigPage runs only on a started server.
C14_StartedOnceBeforeRender ==
  /\ pc \in SetupPcs => serverStarted = 0
  /\ pc \in AllPcs \ SetupPcs =>
       serverStarted = (IF deviceStatus = "MAINTENANCE_MODE" THEN 1 ELSE 0)
  /\ (pc \in RenderPcs \/ lastCall \in {"render_idle", "render_form", "render_submission"})
       => serverStarted = 1

\* renderConfigPage is running, with a client connected to the started
\* server.
C14_Witness ==
  /\ pc = "render"
  /\ serverStarted = 1
  /\ client = "connected"

\* C15: once startConfig has run, the configuration server listens on the
\* port given to the constructor.
C15_ListensOnConfiguredPort ==
  serverStarted > 0 => listenPort = configServerPort

\* C16: after the first loadPreferences the validity flag is true exactly
\* when every text field of the working record is non-empty and its port is
\* not 0, also after a submission has overwritten and saved the record.
C16_ValidityMatchesRecord ==
  pc \in AllPcs \ {"setup_load"} => (isConfigValid <=> ComputeValid(prefs))

\* Whether the store holds the key k in the namespace ns.
Stored(ns, k) == ns \in DOMAIN nvs /\ k \in DOMAIN nvs[ns]

\* C17: after loadPreferences every field holds what the store has under its
\* key, empty text or 0 for a missing key, and the validity flag is true
\* exactly when all seven texts read are non-empty and the port read is not 0.
C17_LoadValidity ==
  lastCall = "loadPreferences" =>
    LET ns == preferencesNamespace
    IN  /\ \A k \in TextKeys : prefs[k] = (IF Stored(ns, k) THEN nvs[ns][k] ELSE <<>>)
        /\ prefs[PortKey] = (IF Stored(ns, PortKey) THEN nvs[ns][PortKey] ELSE 0)
        /\ isConfigValid <=>
             /\ \A k \in Keys : Stored(ns, k)
             /\ \A k \in TextKeys : Len(nvs[ns][k]) > 0
             /\ nvs[ns][PortKey] # 0
        /\ (\E k \in Keys : ~Stored(ns, k)) => ~isConfigValid

\* A store that misses one key has been loaded and found invalid.
C17_Witness ==
  /\ lastCall = "loadPreferences"
  /\ preferencesNamespace = "SMAF-DK"
  /\ DOMAIN nvs["SMAF-DK"] = Keys \ {"netPass"}
  /\ prefs["netPass"] = <<>>
  /\ ~isConfigValid

\* The latest call and the one before it.
LastCall == calls[Len(calls)]
PrevCall == calls[Len(calls) - 1]

\* Whether every text of the record is non-empty and its port in 1..65535.
Populated(record) ==
  /\ \A k \in TextKeys : Len(record[k]) > 0
  /\ record[PortKey] >= 1 /\ record[PortKey] <= UINT16_MAX

\* C18: for a populated working record, savePreferences followed by
\* loadPreferences on the same namespace restores exactly that record and
\* sets the validity flag.
C18_SaveLoadRoundTrip ==
  (/\ Len(calls) >= 2
   /\ PrevCall.op = "savePreferences"
   /\ LastCall.op = "loadPreferences"
   /\ PrevCall.ns \in Namespaces
   /\ Populated(PrevCall.record))
  => /\ LastCall.ns = PrevCall.ns
     /\ prefs = PrevCall.record
     /\ isConfigValid
     /\ \A k \in Keys : nvs[PrevCall.ns][k] = PrevCall.record[k]

\* A record with a space in a text and port 65535 has been saved and loaded
\* back while the working record was the same.
C18_Witness ==
  /\ Len(calls) >= 2
  /\ PrevCall.op = "savePreferences"
  /\ LastCall.op = "loadPreferences"
  /\ PrevCall.ns = "other"
  /\ PrevCall.record[PortKey] = UINT16_MAX
  /\ prefs = PrevCall.record
  /\ isConfigValid

\* C19: a second savePreferences in a row leaves the store as the first one
\* left it, and no savePreferences changes the working record.
C19_SaveIdempotent ==
  /\ [][(Len(calls') = Len(calls) + 1 /\ calls'[Len(calls')].op = "savePreferences") =>
          /\ prefs' = prefs
          /\ isConfigValid' = isConfigValid
          /\ (Len(calls) >= 1 /\ LastCall.op = "savePreferences") => nvs' = nvs]_vars
  /\ [](Len(calls) >= 1 /\ LastCall.op = "savePreferences" =>
          SavedStore(nvs, preferencesNamespace, prefs) = nvs)

\* A populated record has been saved twice in a row over a store that held
\* another record.
C19_Witness ==
  /\ Len(calls) >= 2
  /\ PrevCall.op = "savePreferences"
  /\ LastCall.op = "savePreferences"
  /\ LastCall.ns = "SMAF-DK"
  /\ prefs[PortKey] = 1
  /\ nvs["SMAF-DK"] = prefs

\* C20: clearPreferencesInNamespace(ns) removes every key of ns and no key of
\* another namespace and leaves the working record and the validity flag as
\* they are; a loadPreferences on ns that follows yields seven empty texts,
\* port 0 and an invalid configuration.
C20_ClearNamespace ==
  /\ [][(Len(calls') = Len(calls) + 1
         /\ calls'[Len(calls')].op = "clearPreferencesInNamespace") =>
          /\ DOMAIN nvs'[calls'[Len(calls')].ns] = {}
          /\ \A m \in Namespaces \ {calls'[Len(calls')].ns} : nvs'[m] = nvs[m]
          /\ prefs' = prefs
          /\ isConfigValid' = isConfigValid]_vars
  /\ []((/\ Len(calls) >= 2
         /\ PrevCall.op = "clearPreferencesInNamespace"
         /\ LastCall.op = "loadPreferences"
         /\ LastCall.ns = PrevCall.ns)
        => (prefs = EmptyRecord /\ ~isConfigValid))

\* A namespace that held a saved record and a key outside the record has
\* been cleared and loaded.
C20_Witness ==
  /\ Len(calls) >= 3
  /\ calls[Len(calls) - 2].op = "savePreferences"
  /\ calls[Len(calls) - 2].ns = "other"
  /\ PrevCall.op = "clearPreferencesInNamespace"
  /\ PrevCall.ns = "other"
  /\ PrevCall.record = StoredValid
  /\ LastCall.op = "loadPreferences"
  /\ LastCall.ns = "other"
  /\ prefs = EmptyRecord
  /\ DOMAIN nvs["other"] = {}
  /\ nvs["SMAF-DK"] = StoredValid

\* C21: the store changes only in the step of renderConfigPage that saves a
\* submission, with the status MAINTENANCE_MODE; the change is that of one
\* savePreferences, no key is ever removed, and a restart leaves the store
\* as it is.
C21_StoreWrittenOnlyBySubmission ==
  /\ [][nvs' # nvs =>
          /\ pc = "render_wait"
          /\ deviceStatus = "MAINTENANCE_MODE"
          /\ lastCall' = "render_submission"
          /\ nvs' = SavedStore(nvs, preferencesNamespace, prefs')]_vars
  /\ [][\A n \in Namespaces : DOMAIN nvs[n] \subseteq DOMAIN nvs'[n]]_vars
  /\ [](deviceStatus \in {"NOT_READY", "READY_TO_SEND"} => lastCall # "render_submission")

\* In the boot after a restart, a submission with an empty network password
\* has been saved.
C21_Witness ==
  /\ boots = 1
  /\ deviceStatus = "MAINTENANCE_MODE"
  /\ lastCall = "render_submission"
  /\ nvs["SMAF-DK"] = [StoredValid EXCEPT !["netPass"] = <<>>]

\* C22: after a submission has been saved, the device leaves the maintenance
\* loop and tries to connect to the configured network.
C22_RebootsAfterSave ==
  [](lastCall = "render_submission" => <>(pc \in NetPcs \/ lastCall = "restart"))

\* C23: a restart keeps the store; the boot that follows, with the button
\* unpressed, ends setup in MAINTENANCE_MODE when the saved record has an
\* empty text or port 0 and then never enters the connectivity sequencer, and
\* ends setup in NOT_READY and enters the sequencer when the saved record is
\* populated.
C23_NextBootFollowsStore ==
  /\ [][boots' # boots => nvs' = nvs]_vars
  /\ []((boots >= 1 /\ lastCall = "setup" /\ configurationButton = "LOW") =>
          deviceStatus = (IF StoredConfigComplete THEN "NOT_READY" ELSE "MAINTENANCE_MODE"))
  /\ []((boots >= 1 /\ deviceStatus = "MAINTENANCE_MODE") => pc \in RenderPcs \cup {"loop_top"})
  /\ [][(boots >= 1 /\ pc = "loop_top" /\ pc' # pc /\ boots' = boots) =>
          pc' = (IF deviceStatus = "MAINTENANCE_MODE" THEN "render" ELSE "net_check")]_vars

\* After a submission with an empty network password was saved and the
\* device restarted with the button unpressed, setup has ended in
\* MAINTENANCE_MODE.
C23_Witness ==
  /\ boots = 1
  /\ lastCall = "setup"
  /\ configurationButton = "LOW"
  /\ "netPass" \in DOMAIN nvs["SMAF-DK"]
  /\ nvs["SMAF-DK"]["netPass"] = <<>>
  /\ nvs["SMAF-DK"]["mqttTopic"] = T_t
  /\ deviceStatus = "MAINTENANCE_MODE"

\* Whether the text t occurs somewhere in s.
Occurs(s, t) == \E i \in 0..Len(s) : OccursAt(s, t, i)

\* C24: parseFieldValue returns the empty text whenever the field identifier
\* does not occur in the body.
C24_AbsentFieldEmpty ==
  (fn = "parseFieldValue" /\ ~Occurs(arg.data, arg.fieldId)) => out = <<>>

\* Whether the list of pairs has the key k, and the raw value of the first
\* pair that has it.
HasKey(pairs, k) == \E i \in 1..Len(pairs) : pairs[i][1] = k
FirstValue(pairs, k) ==
  pairs[CHOOSE i \in 1..Len(pairs) :
          pairs[i][1] = k /\ \A j \in 1..(i - 1) : pairs[j][1] # k][2]

\* C25: for a body of key=value pairs followed by " HTTP/1.1" and a key k of
\* it, parseFieldValue returns the decoded value of the first pair whose key
\* is k, at whatever position that pair stands and whatever the other pairs
\* hold.
C25_ValueOfFirstKey ==
  (fn = "parseFieldValue" /\ arg.pairs # <<>> /\ HasKey(arg.pairs, arg.fieldId))
  => out = decodeResponse(FirstValue(arg.pairs, arg.fieldId))

\* The text without its leading and its trailing spaces.
RECURSIVE TrimLeft(_)
TrimLeft(s) == IF s # <<>> /\ Head(s) = CH_SPACE THEN TrimLeft(Tail(s)) ELSE s
RECURSIVE TrimRight(_)
TrimRight(s) ==
  IF s # <<>> /\ s[Len(s)] = CH_SPACE THEN TrimRight(SubSeq(s, 1, Len(s) - 1)) ELSE s
TrimSpaces(s) == TrimRight(TrimLeft(s))

\* C26: for a body of one pair, parseFieldValue returns the decoded value
\* without its leading and trailing spaces, inner spaces kept; "+a+b+" gives
\* "a b".
C26_TrimsSpaces ==
  (fn = "parseFieldValue" /\ Len(arg.pairs) = 1 /\ arg.pairs[1][1] = arg.fieldId)
  => out = TrimSpaces(decodeResponse(arg.pairs[1][2]))

\* The first position >= from at which t occurs in s, -1 when there is none.
FirstAtOrAfter(s, t, from) ==
  LET hits == {i \in 0..Len(s) : i >= from /\ OccursAt(s, t, i)}
  IN  IF hits = {} THEN -1 ELSE CHOOSE i \in hits : \A j \in hits : i <= j

\* The raw value of the field: from behind "<fieldId>=" to the first "&" or
\* the first " HTTP" behind it, whichever is earlier, to the end of the text
\* when there is neither.
RawValue(data, fieldId) ==
  LET start == FirstAtOrAfter(data, fieldId, 0) + Len(fieldId) + 1
      amp == FirstAtOrAfter(data, <<CH_AMP>>, start)
      http == FirstAtOrAfter(data, HttpSuffix, start)
      end == IF amp = -1 /\ http = -1 THEN Len(data)
             ELSE IF amp = -1 THEN http
             ELSE IF http = -1 THEN amp
             ELSE Min(amp, http)
  IN  SubSeq(data, start + 1, end)

\* C27: the raw value parseFieldValue decodes ends at the first "&" or the
\* first " HTTP" behind its start, whichever is earlier, and at the end of
\* the text when there is neither.
C27_EndsAtEarlierDelimiter ==
  (fn = "parseFieldValue" /\ Occurs(arg.data, arg.fieldId))
  => out = (IF RawValue(arg.data, arg.fieldId) = <<>> THEN <<>>
            ELSE removeSpaces(decodeResponse(RawValue(arg.data, arg.fieldId))))

\* The value of a hexadecimal digit, 0 for any other byte.
HexDigits == <<48, 49, 50, 51, 52, 53, 54, 55, 56, 57, 97, 98, 99, 100, 101, 102>>
HexDigitsUpper == <<48, 49, 50, 51, 52, 53, 54, 55, 56, 57, 65, 66, 67, 68, 69, 70>>
HexValue(c) ==
  IF \E i \in 1..16 : HexDigits[i] = c THEN (CHOOSE i \in 1..16 : HexDigits[i] = c) - 1
  ELSE IF \E i \in 1..16 : HexDigitsUpper[i] = c
       THEN (CHOOSE i \in 1..16 : HexDigitsUpper[i] = c) - 1
  ELSE 0

\* Whether every "%" met in a pass from the left has two bytes behind it.
RECURSIVE EscapesComplete(_)
EscapesComplete(s) ==
  IF s = <<>> THEN TRUE
  ELSE IF Head(s) = CH_PERCENT
       THEN Len(s) >= 3 /\ EscapesComplete(SubSeq(s, 4, Len(s)))
  ELSE EscapesComplete(Tail(s))

\* The text decoded in one pass from the left: "%XY" to one byte, "+" to a
\* space, any other byte as it is.
RECURSIVE OnePassDecoded(_)
OnePassDecoded(s) ==
  IF s = <<>> THEN <<>>
  ELSE IF Head(s) = CH_PERCENT
       THEN <<16 * HexValue(s[2]) + HexValue(s[3])>> \o OnePassDecoded(SubSeq(s, 4, Len(s)))
  ELSE IF Head(s) = CH_PLUS THEN <<CH_SPACE>> \o OnePassDecoded(Tail(s))
  ELSE <<Head(s)>> \o OnePassDecoded(Tail(s))

\* C28: decodeResponse returns the text decoded in one pass from the left,
\* "%XY" as the byte 16*hex(X)+hex(Y) with a non-hex digit as 0, "+" as a
\* space, every other byte unchanged; a text without "%" and "+" comes back
\* as it is, and "a%20b+c" gives "a b c".
C28_DecodeOnePass ==
  fn = "decodeResponse" =>
    /\ EscapesComplete(arg.data) => out = OnePassDecoded(arg.data)
    /\ (\A i \in 1..Len(arg.data) : arg.data[i] \notin {CH_PERCENT, CH_PLUS}) => out = arg.data
    /\ arg.data = T_enc => out = <<97, 32, 98, 32, 99>>

\* "%4f%4F" has been decoded to "OO".
C28_Witness ==
  /\ fn = "decodeResponse"
  /\ arg.data = <<37, 52, 102, 37, 52, 70>>
  /\ out = <<79, 79>>

\* Whether the text is one or more decimal digits, and the number it denotes,
\* cut at 65536.
AllDigits(s) == s # <<>> /\ \A i \in 1..Len(s) : s[i] >= CH_0 /\ s[i] <= CH_9
RECURSIVE CutValue(_, _)
CutValue(s, acc) ==
  IF s = <<>> THEN acc
  ELSE CutValue(Tail(s), Min(acc * 10 + (Head(s) - CH_0), UINT16_MAX + 1))

\* C29: stringToUint16 returns the number a decimal text denotes when that is
\* within 0..65535, and 0 for every other text; its result is always within
\* 0..65535.
C29_PortOrZero ==
  fn = "stringToUint16" =>
    /\ out >= 0 /\ out <= UINT16_MAX
    /\ out = (IF AllDigits(arg.data) /\ CutValue(arg.data, 0) <= UINT16_MAX
              THEN CutValue(arg.data, 0) ELSE 0)

\* C30: the lit channels are none, red, green, blue, or red and blue; red and
\* blue are lit together only inside a cycle that sampled MAINTENANCE_MODE,
\* and green is never lit with another channel.
C30_OneIndicationAtATime ==
  /\ lit \in {{}, {"red"}, {"green"}, {"blue"}, {"red", "blue"}}
  /\ {"red", "blue"} \subseteq lit => (visPc = "case" /\ visStatus = "MAINTENANCE_MODE")
  /\ "green" \in lit => lit = {"green"}

\* Red and blue are lit together in a maintenance cycle.
C30_Witness ==
  /\ lit = {"red", "blue"}
  /\ visStatus = "MAINTENANCE_MODE"
  /\ deviceStatus = "MAINTENANCE_MODE"

\* ------------------------------------------------------------ C31

\* What a cycle that sampled status shows while its delays run, delay after
\* delay: nothing for NONE, one red pulse for NOT_READY, one blue pulse for
\* WAITING_GNSS, four green pulses and a pause for READY_TO_SEND, one pulse of
\* red and blue together for MAINTENANCE_MODE.
PatternOf(status) ==
  CASE status = "NONE" -> <<>>
    [] status = "NOT_READY" -> <<{"red"}, {}>>
    [] status = "WAITING_GNSS" -> <<{"blue"}, {}>>
    [] status = "READY_TO_SEND" ->
         <<{"green"}, {}, {"green"}, {}, {"green"}, {}, {"green"}, {}, {}>>
    [] status = "MAINTENANCE_MODE" -> <<{"red", "blue"}, {}>>

\* The channels of a status.
ChannelsOf(status) ==
  CASE status = "NONE" -> {}
    [] status = "NOT_READY" -> {"red"}
    [] status = "WAITING_GNSS" -> {"blue"}
    [] status = "READY_TO_SEND" -> {"green"}
    [] status = "MAINTENANCE_MODE" -> {"red", "blue"}

\* The case of the cycle has run to its break.
CycleDone == visPc = "case" /\ visCount = Len(VisProgram(visStatus))

\* C31: when the thread reaches its switch every channel is off and nothing
\* has been shown in this cycle; inside the case only channels of the sampled
\* status are lit and what has been shown is the beginning of that status's
\* pattern; at the break the whole pattern has been shown and every channel is
\* off; the sampled status changes only at the switch, where it becomes the
\* value deviceStatus has at that moment.
C31_CycleShape ==
  /\ [](/\ visPc = "switch" => (lit = {} /\ shown = <<>>)
        /\ visPc = "case" =>
             /\ lit \subseteq ChannelsOf(visStatus)
             /\ Len(shown) <= Len(PatternOf(visStatus))
             /\ shown = SubSeq(PatternOf(visStatus), 1, Len(shown))
        /\ CycleDone => (shown = PatternOf(visStatus) /\ lit = {}))
  /\ [][visStatus' # visStatus => (visPc = "switch" /\ visStatus' = deviceStatus)]_vars

\* A READY_TO_SEND cycle at its break, four green pulses and the pause shown.
C31_Witness ==
  /\ CycleDone
  /\ visStatus = "READY_TO_SEND"
  /\ Len(shown) = 9
  /\ Cardinality({i \in 1..Len(shown) : shown[i] = {"green"}}) = 4

\* ------------------------------------------------------------ C32

\* C32: once the cycle that was in progress when deviceStatus last changed has
\* ended, every cycle that reaches its case has sampled the present value; a
\* status that stays for ever is from some moment on the only one sampled, and
\* its cycles keep running to their break; the thread always has a next step.
C32_ShownByFollowingCycle ==
  /\ []((cyclesEnded >= 1 /\ visPc = "case") => visStatus = deviceStatus)
  /\ \A s \in Statuses :
       <>[](deviceStatus = s) => (<>[](visStatus = s) /\ []<>(CycleDone /\ visStatus = s))
  /\ [](ENABLED VisThread)

\* A status written after the start is shown by the cycle that follows the
\* one in progress at the write: the burst of READY_TO_SEND has run.
C32_Witness ==
  /\ deviceStatus = "READY_TO_SEND"
  /\ cyclesEnded = 1
  /\ CycleDone
  /\ visStatus = "READY_TO_SEND"
  /\ shown = PatternOf("READY_TO_SEND")

\* ------------------------------------------------------------ C33

\* The positions of the main flow at which it assigns deviceStatus: the mode
\* decision of setup, the head of connectToNetwork, and the head and the
\* connect attempt of connectToMqttBroker.
StatusWriterPcs == {"setup_decide", "net_check", "mqtt_check", "mqtt_connect"}

\* C33: a step that changes deviceStatus is a step of the main flow at one of
\* its assignments and leaves the thread and the indicator channels as they
\* are; a step that changes a lit channel is a step of the thread at one of its
\* digitalWrite calls and leaves the main flow and deviceStatus as they are.
C33_SingleWriters ==
  [][/\ deviceStatus' # deviceStatus =>
          /\ pc \in StatusWriterPcs
          /\ pc' # pc
          /\ UNCHANGED <<visPc, visStatus, visCount, lit, shown>>
     /\ lit' # lit =>
          /\ visPc \in {"off_red", "off_green", "off_blue", "case"}
          /\ (visPc' # visPc \/ visCount' # visCount)
          /\ UNCHANGED <<pc, deviceStatus>>]_vars

\* The main flow is retrying the broker with NOT_READY set while the thread,
\* having sampled it, has the red channel lit.
C33_Witness ==
  /\ pc = "mqtt_connect"
  /\ deviceStatus = "NOT_READY"
  /\ visStatus = "NOT_READY"
  /\ lit = {"red"}

\* ------------------------------------------------------------ C34

\* C34: whenever connectToMqttBroker is about to issue mqtt.connect,
\* deviceStatus is NOT_READY.
C34_AttemptsOnlyWhenNotReady ==
  pc = "mqtt_connect" => deviceStatus = "NOT_READY"

\* ------------------------------------------------------------ C35

\* What the store holds under key k of the namespace in use, or the empty
\* text (0 for the port) when it holds nothing there.
PersistedOrDefault(k) ==
  IF Stored(preferencesNamespace, k)
  THEN nvs[preferencesNamespace][k]
  ELSE (IF k = PortKey THEN 0 ELSE <<>>)

\* C35: right after loadPreferences and right after a served form submission,
\* in any boot, each of the eight persisted values, read with its default,
\* is the field of the working record.
C35_StoreMatchesRecord ==
  lastCall \in {"loadPreferences", "render_submission"} =>
    \A k \in Keys : PersistedOrDefault(k) = prefs[k]

\* A submission served in the boot after a restart, with values in the
\* working record.
C35_Witness ==
  /\ lastCall = "render_submission"
  /\ boots = 1
  /\ Len(prefs["netName"]) > 0
  /\ prefs[PortKey] # 0
  /\ \A k \in Keys : Stored(preferencesNamespace, k)

\* ------------------------------------------------------------ C36

\* C36: in every boot WAITING_GNSS is never the status and NONE is the status
\* only while setup has not made its mode decision; once setup has ended with
\* NOT_READY, every step within the boot leaves the status NOT_READY or
\* READY_TO_SEND.
C36_StatusAfterSetup ==
  /\ [](/\ deviceStatus # "WAITING_GNSS"
        /\ deviceStatus = "NONE" => pc \in SetupPcs
        /\ NormalBoot => deviceStatus \in {"NOT_READY", "READY_TO_SEND"})
  /\ [][(NormalBoot /\ boots' = boots) =>
          (pc' \notin SetupPcs /\ deviceStatus' \in {"NOT_READY", "READY_TO_SEND"})]_vars

\* A normal boot after a restart, back at NOT_READY inside the broker
\* sequencer after a connection was lost.
C36_Witness ==
  /\ NormalBoot
  /\ boots = 1
  /\ losses >= 1
  /\ pc \in MqttPcs
  /\ deviceStatus = "NOT_READY"

\* ------------------------------------------------------------ C37

\* The positions inside connectToNetwork and connectToMqttBroker.
SequencerPcs == NetPcs \cup MqttPcs

\* C37: while connectToNetwork or connectToMqttBroker is executing, the
\* validity flag is set, the seven texts of the working record are non-empty,
\* its port is not 0, and each field is what the store holds under its key;
\* within a boot the working record changes only in loadPreferences at the
\* start of setup and in maintenance mode.
C37_SequencerHasValidConfig ==
  /\ [](pc \in SequencerPcs =>
          /\ isConfigValid
          /\ \A k \in TextKeys : Len(prefs[k]) > 0
          /\ prefs[PortKey] # 0
          /\ \A k \in Keys : prefs[k] = PersistedOrDefault(k))
  /\ [][(prefs' # prefs /\ boots' = boots) =>
          (pc = "setup_load" \/ deviceStatus = "MAINTENANCE_MODE")]_vars

\* The broker connect attempt of a boot that loaded what a form submission
\* of the boot before had saved.
C37_Witness ==
  /\ pc = "mqtt_connect"
  /\ boots = 1
  /\ isConfigValid
  /\ prefs # StoredValid
  /\ \A k \in TextKeys : Len(prefs[k]) > 0

\* ------------------------------------------------------------ C38

\* The encoded separators: "%26" for "&" and "%3D" for "=".
EncodedAmp == <<37, 50, 54>>
EncodedEquals == <<37, 51, 68>>

\* The text begins with "<fieldId>=" and the raw value behind it holds an
\* encoded separator, every "%" of it with two bytes behind it.
HasEncodedSeparator(data, fieldId) ==
  /\ OccursAt(data, fieldId \o <<61>>, 0)
  /\ EscapesComplete(RawValue(data, fieldId))
  /\ \/ Occurs(RawValue(data, fieldId), EncodedAmp)
     \/ Occurs(RawValue(data, fieldId), EncodedEquals)

\* C38: for a field whose raw value holds "%26" or "%3D", parseFieldValue
\* returns the whole raw value decoded, with "&" or "=" in place of the escape,
\* and not a part of it that ends where the decoded separator stands.
C38_CutsBeforeDecoding ==
  (fn = "parseFieldValue" /\ HasEncodedSeparator(arg.data, arg.fieldId)) =>
    LET raw == RawValue(arg.data, arg.fieldId)
    IN  /\ out = OnePassDecoded(raw)
        /\ Occurs(raw, EncodedAmp) => Occurs(out, <<CH_AMP>>)
        /\ Occurs(raw, EncodedEquals) => Occurs(out, <<61>>)

\* "a=x%26y HTTP/1.1" has given "x&y" for the field a.
C38_Witness ==
  /\ fn = "parseFieldValue"
  /\ arg.fieldId = <<97>>
  /\ arg.data = <<97, 61, 120, 37, 50, 54, 121, 32, 72, 84, 84, 80, 47, 49, 46, 49>>
  /\ out = <<120, 38, 121>>

====
